---- MODULE Spec2Model ----
(***************************************************************************)
(* A model of the jewellery-shop application: the Khatabook ledger (party  *)
(* set, transactions, balances and their presentation), the billing        *)
(* session (line-item validation and invoice totals) and the Byajbook      *)
(* interest engine.                                                        *)
(*                                                                         *)
(* Numbers.  The program computes in IEEE doubles.  The model computes in  *)
(* exact integers and exact rationals (a pair num/den in lowest terms);    *)
(* NaN is kept as a separate value because the validation code tests it.   *)
(* Time.  Khatabook and billing timestamps are abstract clock readings.    *)
(* The interest engine counts time in ticks of 1/16 day (5 400 000 ms), so *)
(* that 30.4375 days = 487 ticks and 365.25 days = 5844 ticks are exact.   *)
(***************************************************************************)
EXTENDS Integers, Sequences, FiniteSets, TLC

VARIABLES
    currentView,        \* App: the top-level tab
    now,                \* the wall clock that new Date() reads
    parties,            \* App: Party[]
    khataTransactions,  \* App: KhataTransaction[]
    khatabookView,      \* Khatabook: view
    selectedPartyId,    \* Khatabook: selectedPartyId
    transactionType,    \* Khatabook: transactionType
    items,              \* App: InvoiceItem[]
    gstRate,            \* App: gstRate
    rates,              \* useLiveRates: rates
    error,              \* BillingForm: error
    discountType,       \* InvoicePreview: discountType
    discountValue,      \* InvoicePreview: discountValue (the raw input text)
    loan,               \* LoanDetails: the loan prop
    loanCalc,           \* LoanDetails: { interest, totalPayable, daysPassed }
    customer,           \* App: customer
    invoiceNumber,      \* App: invoiceNumber
    byajLoans,          \* App: ByajLoan[]
    byajbookView,       \* Byajbook: view
    selectedLoanId,     \* Byajbook: selectedLoanId
    mortgagedItems,     \* AddLoanForm: items
    isGeneratingPdf,    \* CustomerLedger: isGeneratingPdf
    isProcessingPdf,    \* LoanDetails: isProcessingPdf
    pendingExports,     \* the handleGeneratePdf calls waiting at await uploadPdfToDrive
    isAuthenticated,    \* GoogleAuthProvider: isAuthenticated
    user,               \* GoogleAuthProvider: user
    accessToken,        \* GoogleAuthProvider: accessToken (0 is null)
    storedToken,        \* sessionStorage: google_access_token (0 is none)
    profileFetches,     \* the fetchUserProfile calls waiting for their response
    tokenClient,        \* window.tokenClient is initialised
    tokenRequested,     \* requestAccessToken was called and has not called back
    folderIdCache,      \* googleDrive: folderIdCache (0 is null)
    driveFolders,       \* Drive: how many folders carry the application's name
    createRequests,     \* Drive: folder-creation requests received
    isLoading,          \* useLiveRates: isLoading
    rateError,          \* useLiveRates: error
    rateFetches         \* useLiveRates: fetchRates calls waiting for their response

khataVars   == <<parties, khataTransactions, khatabookView, selectedPartyId, transactionType>>
billingVars == <<items, gstRate, rates, error, discountType, discountValue>>
loanVars    == <<loan, loanCalc>>
sessionVars == <<customer, invoiceNumber>>
byajVars    == <<byajLoans, byajbookView, selectedLoanId, mortgagedItems>>
exportVars  == <<isGeneratingPdf, isProcessingPdf, pendingExports, isAuthenticated>>
authVars    == <<user, accessToken, storedToken, profileFetches, tokenClient, tokenRequested>>
driveVars   == <<folderIdCache, driveFolders, createRequests>>
feedVars    == <<isLoading, rateError, rateFetches>>
remoteVars  == <<authVars, driveVars, feedVars>>
vars        == <<currentView, now, khataVars, billingVars, loanVars, sessionVars,
                 byajVars, exportVars, remoteVars>>

----------------------------------------------------------------------------
(* Bounds *)

MaxTxns    == 2     \* transactions ever added
MaxParties == 3     \* parties ever added
MaxItems   == 2     \* invoice items in the session
MaxFormItems == 1   \* invoice items in the session when only the form is exercised

null == "null"

\* The readings the wall clock takes while the Khatabook is used.
ClockReadings == {0, 1}

----------------------------------------------------------------------------
(* Text inputs and the JavaScript conversions applied to them *)

NaN    == [nan |-> TRUE, val |-> 0]
Num(v) == [nan |-> FALSE, val |-> v]

\* String.prototype.trim on the input texts the model draws: the only text
\* with surrounding white space is the blank one.
Trim(s) == IF s = " " THEN "" ELSE s

\* String.prototype.length on the phone texts the model draws.
StrLen(s) ==
    CASE s = ""      -> 0
      [] s = "12345" -> 5
      [] OTHER       -> 10

\* parseFloat on the number texts the model draws: a leading numeric prefix is
\* converted, anything else is NaN.
parseFloat(s) ==
    CASE s = ""     -> NaN
      [] s = "abc"  -> NaN
      [] s = "-200" -> Num(-200)
      [] s = "-5"   -> Num(-5)
      [] s = "-1"   -> Num(-1)
      [] s = "0"    -> Num(0)
      [] s = "1"    -> Num(1)
      [] s = "2"    -> Num(2)
      [] s = "3"    -> Num(3)
      [] s = "2kg"  -> Num(2)
      [] s = "18"   -> Num(18)
      [] s = "40"   -> Num(40)
      [] s = "50"   -> Num(50)
      [] s = "100"  -> Num(100)
      [] s = "150"  -> Num(150)
      [] s = "200"  -> Num(200)
      [] s = "600"  -> Num(600)
      [] s = "1000" -> Num(1000)

isNaN(x) == x.nan

\* IEEE comparisons: every comparison with NaN is false.
Gt(x, y) == ~x.nan /\ ~y.nan /\ x.val > y.val
Le(x, y) == ~x.nan /\ ~y.nan /\ x.val <= y.val
Lt(x, y) == ~x.nan /\ ~y.nan /\ x.val < y.val

----------------------------------------------------------------------------
(* Khatabook: the App handlers *)

NameInputs   == {"", " ", "Asha"}
PhoneInputs  == {"9876543210", "9123456780", "12345"}
PartyTypes   == {"CUSTOMER", "SUPPLIER"}
TxnTypes     == {"CREDIT", "DEBIT"}
AmountInputs == {"", "abc", "0", "-5", "40", "100"}
Tabs         == {"billing", "khatabook", "reports", "byajbook"}

\* What the add-party form can hold when it is submitted, and the forms the
\* model submits: one number is always entered as a supplier, the others as
\* customers.  (Duplicate handling is examined over all of PartyForms.)
PartyForms == [name : NameInputs, phone : PhoneInputs, type : PartyTypes]

SubmittedPartyForms ==
    {f \in PartyForms :
        f.type = (IF f.phone = "9123456780" THEN "SUPPLIER" ELSE "CUSTOMER")}

\* Variant of InsertByDate: the comparator turned round (b - a), latest first.
InsertByDateDescending(sorted, x) ==
    LET k == Cardinality({i \in 1..Len(sorted) : sorted[i].date >= x.date})
    IN  SubSeq(sorted, 1, k) \o <<x>> \o SubSeq(sorted, k + 1, Len(sorted))

\* The comparator (a, b) => a.date.getTime() - b.date.getTime() under the
\* stable Array.prototype.sort: x goes behind every element not later than it.
InsertByDate(sorted, x) ==
    LET k == Cardinality({i \in 1..Len(sorted) : sorted[i].date <= x.date})
    IN  SubSeq(sorted, 1, k) \o <<x>> \o SubSeq(sorted, k + 1, Len(sorted))

RECURSIVE SortByDate(_)
SortByDate(s) ==
    IF s = <<>> THEN <<>>
    ELSE InsertByDate(SortByDate(SubSeq(s, 1, Len(s) - 1)), s[Len(s)])

\* Variant of handleAddParty: the duplicate test left out.
handleAddPartyUnchecked(ps, party) ==
    [parties |-> Append(ps, [id |-> party.phone, name |-> party.name,
                             phone |-> party.phone, type |-> party.type]),
     returned |-> "undefined", threw |-> FALSE, consoleError |-> FALSE]

\* App.handleAddParty.  The handler returns nothing and throws nothing; the
\* duplicate branch writes to the console.
handleAddParty(ps, party) ==
    IF \E i \in 1..Len(ps) : ps[i].phone = party.phone
    THEN [parties |-> ps, returned |-> "undefined", threw |-> FALSE, consoleError |-> TRUE]
    ELSE [parties |-> Append(ps, [id |-> party.phone, name |-> party.name,
                                  phone |-> party.phone, type |-> party.type]),
          returned |-> "undefined", threw |-> FALSE, consoleError |-> FALSE]

\* App.handleAddKhataTransaction.  The id (ISO time + Math.random()) is fresh;
\* the model uses the insertion ordinal.
handleAddKhataTransaction(txns, transaction, clock) ==
    SortByDate(Append(txns, [id |-> Len(txns) + 1, date |-> clock,
                             partyId |-> transaction.partyId,
                             type |-> transaction.type,
                             amount |-> transaction.amount]))

----------------------------------------------------------------------------
(* Khatabook: derived values of the three views *)

EmptyMap == [k \in {} |-> 0]
MapGetOr0(m, k) == IF k \in DOMAIN m THEN m[k] ELSE 0
MapSet(m, k, v) == [x \in (DOMAIN m) \cup {k} |-> IF x = k THEN v ELSE m[x]]

\* Variant of partyBalancesFold: CREDIT added, DEBIT subtracted.
RECURSIVE partyBalancesFoldFlipped(_, _)
partyBalancesFoldFlipped(txns, balances) ==
    IF txns = <<>> THEN balances
    ELSE LET t == Head(txns)
             currentBalance == MapGetOr0(balances, t.partyId)
             newBalance == currentBalance + (IF t.type = "CREDIT" THEN t.amount ELSE -t.amount)
         IN  partyBalancesFoldFlipped(Tail(txns), MapSet(balances, t.partyId, newBalance))

\* CustomerList.partyBalances
RECURSIVE partyBalancesFold(_, _)
partyBalancesFold(txns, balances) ==
    IF txns = <<>> THEN balances
    ELSE LET t == Head(txns)
             currentBalance == MapGetOr0(balances, t.partyId)
             newBalance == currentBalance + (IF t.type = "CREDIT" THEN -t.amount ELSE t.amount)
         IN  partyBalancesFold(Tail(txns), MapSet(balances, t.partyId, newBalance))

partyBalances(txns) == partyBalancesFold(txns, EmptyMap)

\* CustomerList: the balance shown for one party
ListBalance(party, txns) == MapGetOr0(partyBalances(txns), party.id)

\* CustomerList: the caption under the amount
ListLabel(balance) ==
    IF balance # 0 THEN (IF balance > 0 THEN "Advance" ELSE "Due") ELSE ""

\* Reports: balances
RECURSIVE reportsBalancesFold(_, _)
reportsBalancesFold(txns, balances) ==
    IF txns = <<>> THEN balances
    ELSE LET t == Head(txns)
             currentBalance == MapGetOr0(balances, t.partyId)
             newBalance == currentBalance + (IF t.type = "DEBIT" THEN t.amount ELSE -t.amount)
         IN  reportsBalancesFold(Tail(txns), MapSet(balances, t.partyId, newBalance))

ReportsBalance(party, txns) == MapGetOr0(reportsBalancesFold(txns, EmptyMap), party.id)

\* Reports: allPartyBalances
allPartyBalances(ps, txns) ==
    [i \in 1..Len(ps) |-> [party |-> ps[i], balance |-> ReportsBalance(ps[i], txns)]]

\* Variant of the supplier filter that lists a supplier with any balance.
supplierPayablesFilterAnySign(pb) == pb.party.type = "SUPPLIER" /\ pb.balance # 0

\* Reports: the filters of customerDues and supplierPayables
customerDuesFilter(pb)     == pb.party.type = "CUSTOMER" /\ pb.balance > 0
supplierPayablesFilter(pb) == pb.party.type = "SUPPLIER" /\ pb.balance < 0

\* Reports: the two reduce calls (absolute: with Math.abs)
RECURSIVE reduceBalances(_, _, _)
reduceBalances(pbs, sum, absolute) ==
    IF pbs = <<>> THEN sum
    ELSE reduceBalances(Tail(pbs),
                        sum + (IF absolute /\ Head(pbs).balance < 0
                               THEN -Head(pbs).balance ELSE Head(pbs).balance),
                        absolute)

\* Reports: the useMemo value
Reports(ps, txns) ==
    LET customerDues     == SelectSeq(allPartyBalances(ps, txns), customerDuesFilter)
        supplierPayables == SelectSeq(allPartyBalances(ps, txns), supplierPayablesFilter)
    IN  [totalReceivables |-> reduceBalances(customerDues, 0, FALSE),
         totalPayables    |-> reduceBalances(supplierPayables, 0, TRUE),
         customerDues     |-> customerDues,
         supplierPayables |-> supplierPayables]

\* Khatabook: the transactions prop handed to CustomerLedger
LedgerTransactions(party, txns) == SelectSeq(txns, LAMBDA t : t.partyId = party.id)

\* CustomerLedger: the rows sorted.map(...) yields, before .reverse(); the
\* second argument is the variable runningBalance on entry.
RECURSIVE runningRows(_, _)
runningRows(sorted, runningBalance) ==
    IF sorted = <<>> THEN <<>>
    ELSE LET t == Head(sorted)
             b == runningBalance + (IF t.type = "DEBIT" THEN t.amount ELSE -t.amount)
         IN  <<[id |-> t.id, date |-> t.date, partyId |-> t.partyId, type |-> t.type,
                amount |-> t.amount, balance |-> b]>> \o runningRows(Tail(sorted), b)

\* CustomerLedger: the variable runningBalance once the map has run.
RECURSIVE runningBalanceAfter(_, _)
runningBalanceAfter(sorted, runningBalance) ==
    IF sorted = <<>> THEN runningBalance
    ELSE LET t == Head(sorted)
         IN  runningBalanceAfter(Tail(sorted),
                 runningBalance + (IF t.type = "DEBIT" THEN t.amount ELSE -t.amount))

Reverse(s) == [i \in 1..Len(s) |-> s[Len(s) + 1 - i]]

\* CustomerLedger: { finalBalance, transactionRows }; processed is the row
\* sequence in processing order, transactionRows the displayed (reversed) one.
CustomerLedger(transactions) ==
    LET sorted == SortByDate(transactions)
        rows   == runningRows(sorted, 0)
    IN  [processed       |-> rows,
         transactionRows |-> Reverse(rows),
         finalBalance    |-> runningBalanceAfter(sorted, 0)]

\* CustomerLedger: the caption over the net balance
HeaderLabel(finalBalance) ==
    IF finalBalance >= 0 THEN "net_balance_get" ELSE "net_balance_give"

\* CustomerLedger.handleWhatsAppReminder: the balanceType word of the message,
\* or null when the handler only alerts that nothing is outstanding.
ReminderBalanceType(finalBalance) ==
    IF finalBalance = 0 THEN null
    ELSE IF finalBalance < 0 THEN "due" ELSE "advance"

\* Khatabook: selectedParty, props.parties.find(...) || null.  HasSelectedParty
\* is "selectedParty is not null"; selectedParty is read only when it holds.
HasSelectedParty == \E i \in 1..Len(parties) : parties[i].id = selectedPartyId

selectedParty ==
    parties[CHOOSE i \in 1..Len(parties) :
               /\ parties[i].id = selectedPartyId
               /\ \A j \in 1..(i - 1) : parties[j].id # selectedPartyId]

----------------------------------------------------------------------------
(* Khatabook: actions *)

KhatabookMounted == currentView = "khatabook"

\* A pending handleGeneratePdf call belongs to the component instance that
\* started it.  When that instance is unmounted the call goes on, but its
\* setState in the finally block no longer reaches any mounted component.
Unmounted(exports, origins) ==
    [k \in 1..Len(exports) |->
        IF exports[k].origin \in origins
        THEN [exports[k] EXCEPT !.mounted = FALSE]
        ELSE exports[k]]

\* App: the bottom navigation.  Leaving a tab unmounts its component, whose
\* useState values start afresh at the next mount.
SetCurrentView(v) ==
    /\ v # currentView
    /\ currentView' = v
    /\ khatabookView' = "LIST"
    /\ selectedPartyId' = null
    /\ transactionType' = "CREDIT"
    /\ error' = null
    /\ discountType' = "PERCENT"
    /\ discountValue' = ""
    /\ byajbookView' = "LIST"
    /\ selectedLoanId' = null
    /\ mortgagedItems' = <<>>
    /\ isGeneratingPdf' = FALSE
    /\ isProcessingPdf' = FALSE
    /\ pendingExports' = Unmounted(pendingExports, {"ledger", "loan"})
    /\ UNCHANGED <<now, parties, khataTransactions, items, gstRate, rates, loanVars,
                   sessionVars, byajLoans, isAuthenticated, remoteVars>>

\* The wall clock moves on.
Tick ==
    /\ now' \in {t \in ClockReadings : t > now}
    /\ UNCHANGED <<currentView, khataVars, billingVars, loanVars,
                   sessionVars, byajVars, exportVars, remoteVars>>

\* The wall clock is set back (clock adjustment).
ClockSetBack ==
    /\ now' \in {t \in ClockReadings : t < now}
    /\ UNCHANGED <<currentView, khataVars, billingVars, loanVars,
                   sessionVars, byajVars, exportVars, remoteVars>>

\* CustomerList.onAddCustomer
OnAddCustomer ==
    /\ KhatabookMounted /\ khatabookView = "LIST"
    /\ khatabookView' = "ADD_CUSTOMER"
    /\ UNCHANGED <<currentView, now, parties, khataTransactions, selectedPartyId,
                   transactionType, billingVars, loanVars,
                   sessionVars, byajVars, exportVars, remoteVars>>

\* AddCustomerForm.handleSubmit as an operator on (parties, view)
AddCustomerFormSubmit(ps, view, name, phone, type) ==
    IF Trim(name) # "" /\ StrLen(Trim(phone)) >= 10
    THEN LET r == handleAddParty(ps, [name |-> name, phone |-> phone, type |-> type])
         IN  [parties |-> r.parties, view |-> "LIST", saved |-> TRUE,
              returned |-> r.returned, threw |-> r.threw]
    ELSE [parties |-> ps, view |-> view, saved |-> FALSE,
          returned |-> "undefined", threw |-> FALSE]

AddCustomerSubmit(name, phone, type) ==
    /\ KhatabookMounted /\ khatabookView = "ADD_CUSTOMER"
    /\ LET r == AddCustomerFormSubmit(parties, khatabookView, name, phone, type)
       IN  /\ Len(r.parties) <= MaxParties
           /\ parties' = r.parties
           /\ khatabookView' = r.view
    /\ UNCHANGED <<currentView, now, khataTransactions, selectedPartyId,
                   transactionType, billingVars, loanVars,
                   sessionVars, byajVars, exportVars, remoteVars>>

\* AddCustomerForm.onBack
AddCustomerBack ==
    /\ KhatabookMounted /\ khatabookView = "ADD_CUSTOMER"
    /\ khatabookView' = "LIST"
    /\ UNCHANGED <<currentView, now, parties, khataTransactions, selectedPartyId,
                   transactionType, billingVars, loanVars,
                   sessionVars, byajVars, exportVars, remoteVars>>

\* Variant of onSelectParty: the view is changed, the selection is not.
OnSelectPartyViewOnly(i) ==
    /\ KhatabookMounted /\ khatabookView = "LIST"
    /\ i \in 1..Len(parties)
    /\ khatabookView' = "CUSTOMER_LEDGER"
    /\ UNCHANGED <<currentView, now, parties, khataTransactions, selectedPartyId,
                   transactionType,
                   billingVars, loanVars,
                   sessionVars, byajVars, exportVars, remoteVars>>

\* CustomerList.onSelectParty: a click on a listed party
OnSelectParty(i) ==
    /\ KhatabookMounted /\ khatabookView = "LIST"
    /\ i \in 1..Len(parties)
    /\ selectedPartyId' = parties[i].id
    /\ khatabookView' = "CUSTOMER_LEDGER"
    /\ UNCHANGED <<currentView, now, parties, khataTransactions, transactionType,
                   billingVars, loanVars,
                   sessionVars, byajVars, exportVars, remoteVars>>

\* CustomerLedger.onBack; CustomerLedger is unmounted
LedgerBack ==
    /\ KhatabookMounted /\ khatabookView = "CUSTOMER_LEDGER" /\ HasSelectedParty
    /\ khatabookView' = "LIST"
    /\ isGeneratingPdf' = FALSE
    /\ pendingExports' = Unmounted(pendingExports, {"ledger"})
    /\ UNCHANGED <<currentView, now, parties, khataTransactions, selectedPartyId,
                   transactionType, billingVars, loanVars,
                   sessionVars, byajVars, isProcessingPdf, isAuthenticated, remoteVars>>

\* CustomerLedger.onAddTransaction; CustomerLedger is unmounted
OnAddTransaction(type) ==
    /\ KhatabookMounted /\ khatabookView = "CUSTOMER_LEDGER" /\ HasSelectedParty
    /\ transactionType' = type
    /\ khatabookView' = "ADD_TRANSACTION"
    /\ isGeneratingPdf' = FALSE
    /\ pendingExports' = Unmounted(pendingExports, {"ledger"})
    /\ UNCHANGED <<currentView, now, parties, khataTransactions, selectedPartyId,
                   billingVars, loanVars,
                   sessionVars, byajVars, isProcessingPdf, isAuthenticated, remoteVars>>

\* Variant of AddTransactionForm.handleSubmit: an amount of 0 is let through.
AddTransactionFormSubmitZeroAllowed(txns, view, party, type, amount, clock) ==
    LET numericAmount == parseFloat(amount)
    IN  IF ~isNaN(numericAmount) /\ Le(Num(0), numericAmount)
        THEN [transactions |->
                  handleAddKhataTransaction(txns,
                      [partyId |-> party.id, amount |-> numericAmount.val,
                       type |-> type], clock),
              view |-> "CUSTOMER_LEDGER", saved |-> TRUE]
        ELSE [transactions |-> txns, view |-> view, saved |-> FALSE]

\* AddTransactionForm.handleSubmit as an operator on (transactions, view);
\* onSave is Khatabook's: props.onAddTransaction(data), setView('CUSTOMER_LEDGER')
AddTransactionFormSubmit(txns, view, party, type, amount, clock) ==
    LET numericAmount == parseFloat(amount)
    IN  IF ~isNaN(numericAmount) /\ Gt(numericAmount, Num(0))
        THEN [transactions |->
                  handleAddKhataTransaction(txns,
                      [partyId |-> party.id, amount |-> numericAmount.val,
                       type |-> type], clock),
              view |-> "CUSTOMER_LEDGER", saved |-> TRUE]
        ELSE [transactions |-> txns, view |-> view, saved |-> FALSE]

AddTransactionSubmit(amount) ==
    /\ KhatabookMounted /\ khatabookView = "ADD_TRANSACTION" /\ HasSelectedParty
    /\ LET r == AddTransactionFormSubmit(khataTransactions, khatabookView, selectedParty,
                                         transactionType, amount, now)
       IN  /\ Len(r.transactions) <= MaxTxns
           /\ khataTransactions' = r.transactions
           /\ khatabookView' = r.view
    /\ UNCHANGED <<currentView, now, parties, selectedPartyId, transactionType,
                   billingVars, loanVars,
                   sessionVars, byajVars, exportVars, remoteVars>>

\* AddTransactionForm.onBack
AddTransactionBack ==
    /\ KhatabookMounted /\ khatabookView = "ADD_TRANSACTION" /\ HasSelectedParty
    /\ khatabookView' = "CUSTOMER_LEDGER"
    /\ UNCHANGED <<currentView, now, parties, khataTransactions, selectedPartyId,
                   transactionType, billingVars, loanVars,
                   sessionVars, byajVars, exportVars, remoteVars>>

----------------------------------------------------------------------------
(* Exact rational arithmetic, num/den in lowest terms with den > 0 *)

Abs(x) == IF x < 0 THEN -x ELSE x

RECURSIVE GCD(_, _)
GCD(a, b) == IF b = 0 THEN a ELSE GCD(b, a % b)

Rat(n, d) ==
    LET sgn == IF d < 0 THEN -1 ELSE 1
        g   == GCD(Abs(n), Abs(d))
    IN  [num |-> (sgn * n) \div g, den |-> (sgn * d) \div g]

RatInt(n)    == [num |-> n, den |-> 1]
RatAdd(a, b) == Rat(a.num * b.den + b.num * a.den, a.den * b.den)
RatSub(a, b) == Rat(a.num * b.den - b.num * a.den, a.den * b.den)
RatMul(a, b) == Rat(a.num * b.num, a.den * b.den)
RatDiv(a, b) == Rat(a.num * b.den, a.den * b.num)
RatLt(a, b)  == a.num * b.den < b.num * a.den
RatLe(a, b)  == a.num * b.den <= b.num * a.den
RatMax(a, b) == IF RatLt(a, b) THEN b ELSE a
RatFloor(a)  == a.num \div a.den
Zero         == RatInt(0)

----------------------------------------------------------------------------
(* Billing: BillingForm, App handlers and the InvoicePreview totals *)

DescriptionInputs == {"", " ", "Ring"}
Metals            == {"GOLD", "SILVER"}
GrossInputs       == {"abc", "0", "2"}
NetInputs         == {"", "-1", "2", "3"}
MakingChargeTypes == {"PER_GRAM", "FLAT"}
MakingInputs      == {"abc", "-1", "0", "3"}
GstInputs         == {"", "-200", "18"}
DiscountTypes     == {"PERCENT", "FIXED"}
DiscountInputs    == {"", "-5", "50", "150"}

\* What the form fields can hold when the form is submitted.
FormInputs ==
    [description : DescriptionInputs, metal : Metals, grossWeight : GrossInputs,
     netWeight : NetInputs, makingChargeType : MakingChargeTypes,
     makingChargeValue : MakingInputs, applyGst : BOOLEAN]

\* The forms the model submits: those with at most one field away from a
\* plain filled-in form.  (Validation is examined over all of FormInputs.)
PlainFields ==
    [description |-> {"Ring"}, grossWeight |-> {"2"}, netWeight |-> {"2"},
     makingChargeValue |-> {"0", "3"}]

SubmitInputs ==
    {f \in FormInputs :
        Cardinality({k \in DOMAIN PlainFields : f[k] \notin PlainFields[k]}) <= 1}

\* App.handleAddItem
handleAddItem(prevItems, item) == Append(prevItems, item)

\* Variant of BillingFormSubmit: the net-over-gross test left out.
BillingFormSubmitNoNetTest(its, err, f, clock) ==
    LET gw  == parseFloat(f.grossWeight)
        nw  == parseFloat(f.netWeight)
        mcv == parseFloat(f.makingChargeValue)
    IN  IF \/ Trim(f.description) = ""
           \/ isNaN(gw) \/ isNaN(nw) \/ isNaN(mcv)
           \/ Le(gw, Num(0)) \/ Le(nw, Num(0)) \/ Lt(mcv, Num(0))
        THEN [items |-> its, error |-> "please_fill_valid_values"]
        ELSE [items |-> handleAddItem(its,
                          [id |-> clock, description |-> f.description, metal |-> f.metal,
                           grossWeight |-> gw.val, netWeight |-> nw.val,
                           makingChargeType |-> f.makingChargeType,
                           makingChargeValue |-> mcv.val, applyGst |-> f.applyGst]),
              error |-> null]

\* BillingForm.handleSubmit as an operator on (items, error); clock is the
\* reading new Date() gives for the id.
BillingFormSubmit(its, err, f, clock) ==
    LET gw  == parseFloat(f.grossWeight)
        nw  == parseFloat(f.netWeight)
        mcv == parseFloat(f.makingChargeValue)
    IN  IF \/ Trim(f.description) = ""
           \/ isNaN(gw) \/ isNaN(nw) \/ isNaN(mcv)
           \/ Le(gw, Num(0)) \/ Le(nw, Num(0)) \/ Lt(mcv, Num(0))
        THEN [items |-> its, error |-> "please_fill_valid_values"]
        ELSE IF Gt(nw, gw)
        THEN [items |-> its, error |-> "net_weight_error"]
        ELSE [items |-> handleAddItem(its,
                          [id |-> clock, description |-> f.description, metal |-> f.metal,
                           grossWeight |-> gw.val, netWeight |-> nw.val,
                           makingChargeType |-> f.makingChargeType,
                           makingChargeValue |-> mcv.val, applyGst |-> f.applyGst]),
              error |-> null]

\* InvoicePreview: one element of calculations
ItemCalculation(item, rateTable, gst) ==
    LET rate           == rateTable[item.metal]
        metalValue     == RatInt(item.netWeight * rate)
        makingCharges  == IF item.makingChargeType = "PER_GRAM"
                          THEN RatInt(item.makingChargeValue * item.grossWeight)
                          ELSE RatInt(item.makingChargeValue)
        valueBeforeGst == RatAdd(metalValue, makingCharges)
        itemGstAmount  == IF item.applyGst
                          THEN RatMul(valueBeforeGst, Rat(gst, 100))
                          ELSE Zero
    IN  [valueBeforeGst |-> valueBeforeGst, itemGstAmount |-> itemGstAmount,
         totalValue |-> RatAdd(valueBeforeGst, itemGstAmount)]

RECURSIVE SumValueBeforeGst(_, _, _)
SumValueBeforeGst(its, rateTable, gst) ==
    IF its = <<>> THEN Zero
    ELSE RatAdd(SumValueBeforeGst(SubSeq(its, 1, Len(its) - 1), rateTable, gst),
                ItemCalculation(its[Len(its)], rateTable, gst).valueBeforeGst)

RECURSIVE SumItemGstAmount(_, _, _)
SumItemGstAmount(its, rateTable, gst) ==
    IF its = <<>> THEN Zero
    ELSE RatAdd(SumItemGstAmount(SubSeq(its, 1, Len(its) - 1), rateTable, gst),
                ItemCalculation(its[Len(its)], rateTable, gst).itemGstAmount)

\* InvoicePreview: subTotal .. grandTotal
InvoiceTotals(its, rateTable, gst, dType, dValue) ==
    LET subTotal            == SumValueBeforeGst(its, rateTable, gst)
        gstAmount           == SumItemGstAmount(its, rateTable, gst)
        totalBeforeDiscount == RatAdd(subTotal, gstAmount)
        parsed              == parseFloat(dValue)
        numericDiscountValue == IF isNaN(parsed) \/ parsed.val = 0 THEN 0 ELSE parsed.val
        resolved            == IF numericDiscountValue > 0
                               THEN IF dType = "PERCENT"
                                    THEN RatMul(totalBeforeDiscount, Rat(numericDiscountValue, 100))
                                    ELSE RatInt(numericDiscountValue)
                               ELSE Zero
        discountAmount      == IF RatLt(totalBeforeDiscount, resolved)
                               THEN totalBeforeDiscount ELSE resolved
    IN  [subTotal |-> subTotal, gstAmount |-> gstAmount,
         totalBeforeDiscount |-> totalBeforeDiscount,
         resolvedDiscount |-> resolved,
         discountAmount |-> discountAmount,
         grandTotal |-> RatSub(totalBeforeDiscount, discountAmount)]

BillingMounted == currentView = "billing"

\* useLiveRates: rates is null (no table, an empty map here) until a fetch has
\* succeeded; App renders InvoicePreview only when rates is not null.
NoRates     == EmptyMap
RatesLoaded == DOMAIN rates # {}

\* BillingForm.handleSubmit, with the session kept to at most cap items
BillingSubmitUpTo(f, cap) ==
    /\ BillingMounted
    /\ LET r == BillingFormSubmit(items, error, f, now)
       IN  /\ Len(r.items) <= cap
           /\ items' = r.items
           /\ error' = r.error
    /\ UNCHANGED <<currentView, now, khataVars, gstRate, rates, discountType,
                   discountValue, loanVars,
                   sessionVars, byajVars, exportVars, remoteVars>>

\* App.handleGstRateChange
handleGstRateChange(text) ==
    LET value == parseFloat(text) IN IF isNaN(value) THEN 0 ELSE value.val

GstRateChange(text) ==
    /\ BillingMounted
    /\ gstRate' = handleGstRateChange(text)
    /\ UNCHANGED <<currentView, now, khataVars, items, rates, error, discountType,
                   discountValue, loanVars,
                   sessionVars, byajVars, exportVars, remoteVars>>

\* InvoicePreview: the discount input, setDiscountValue(e.target.value)
SetDiscountValue(text) ==
    /\ BillingMounted /\ RatesLoaded
    /\ discountValue' = text
    /\ UNCHANGED <<currentView, now, khataVars, items, gstRate, rates, error,
                   discountType, loanVars,
                   sessionVars, byajVars, exportVars, remoteVars>>

\* InvoicePreview: the discount mode select, setDiscountType(e.target.value)
SetDiscountType(type) ==
    /\ BillingMounted /\ RatesLoaded
    /\ discountType' = type
    /\ UNCHANGED <<currentView, now, khataVars, items, gstRate, rates, error,
                   discountValue, loanVars,
                   sessionVars, byajVars, exportVars, remoteVars>>

----------------------------------------------------------------------------
(* Billing: the session header, removeItem and clearInvoice *)

MaxSessionItems  == 3    \* invoice items in the session when items are removed
MaxInvoiceNumber == 3    \* the invoice number the session is followed up to

InvoiceNumberInputs == {"", "abc", "-3", "0", "1", "2", "2.5"}
CustomerNames       == {"", "Asha"}
CustomerPhones      == {"", "9876543210"}

\* parseInt(text, 10): the leading integer of the text, or NaN
parseInt(s) ==
    CASE s = "-3"  -> Num(-3)
      [] s = "0"   -> Num(0)
      [] s = "1"   -> Num(1)
      [] s = "2"   -> Num(2)
      [] s = "2.5" -> Num(2)
      [] OTHER     -> NaN

\* The part of App's state the billing handlers work on.
Session ==
    [items |-> items, customer |-> customer, gstRate |-> gstRate,
     invoiceNumber |-> invoiceNumber]

\* Variant of handleRemoveItem: the first item is dropped whatever its id.
handleRemoveItemFirst(session, id) ==
    [session EXCEPT !.items = IF session.items = <<>> THEN <<>> ELSE Tail(session.items)]

\* App.handleRemoveItem
handleRemoveItem(session, id) ==
    [session EXCEPT !.items = SelectSeq(session.items, LAMBDA item : item.id # id)]

\* Variant of handleClearInvoice: the customer is kept.
handleClearInvoiceKeepCustomer(session) ==
    [session EXCEPT !.items = <<>>, !.invoiceNumber = session.invoiceNumber + 1]

\* App.handleClearInvoice
handleClearInvoice(session) ==
    [session EXCEPT !.items = <<>>,
                    !.customer = [name |-> "", phone |-> ""],
                    !.invoiceNumber = session.invoiceNumber + 1]

\* InvoicePreview.handleClear on (session, discount)
handleClear(session, dType, dValue) ==
    [session |-> handleClearInvoice(session), discountType |-> "PERCENT", discountValue |-> ""]

\* Variant of handleInvoiceNumberChange: the value is stored as parsed.
handleInvoiceNumberChangeUnclamped(text) ==
    LET value == parseInt(text) IN IF isNaN(value) THEN 1 ELSE value.val

\* App.handleInvoiceNumberChange
handleInvoiceNumberChange(text) ==
    LET value == parseInt(text)
    IN  IF isNaN(value) \/ Lt(value, Num(1)) THEN 1 ELSE value.val

\* App.handleCustomerChange
handleCustomerChange(prevCustomer, field, value) == [prevCustomer EXCEPT ![field] = value]

\* InvoicePreview: the trash button of row i, onRemoveItem(item.id)
RemoveItem(i) ==
    /\ BillingMounted /\ RatesLoaded
    /\ i \in 1..Len(items)
    /\ LET r == handleRemoveItem(Session, items[i].id)
       IN  /\ items' = r.items
           /\ customer' = r.customer
           /\ gstRate' = r.gstRate
           /\ invoiceNumber' = r.invoiceNumber
    /\ UNCHANGED <<currentView, now, khataVars, rates, error, discountType,
                   discountValue, loanVars, byajVars, exportVars, remoteVars>>

\* InvoicePreview: the clear button
ClearInvoice ==
    /\ BillingMounted /\ RatesLoaded
    /\ invoiceNumber < MaxInvoiceNumber
    /\ LET r == handleClear(Session, discountType, discountValue)
       IN  /\ items' = r.session.items
           /\ customer' = r.session.customer
           /\ gstRate' = r.session.gstRate
           /\ invoiceNumber' = r.session.invoiceNumber
           /\ discountType' = r.discountType
           /\ discountValue' = r.discountValue
    /\ UNCHANGED <<currentView, now, khataVars, rates, error, loanVars, byajVars,
                   exportVars, remoteVars>>

\* App: the invoice number input
InvoiceNumberChange(text) ==
    /\ BillingMounted
    /\ invoiceNumber' = handleInvoiceNumberChange(text)
    /\ UNCHANGED <<currentView, now, khataVars, billingVars, loanVars, customer,
                   byajVars, exportVars, remoteVars>>

\* InvoicePreview: the customer name and phone inputs
CustomerChange(field, value) ==
    /\ BillingMounted /\ RatesLoaded
    /\ customer' = handleCustomerChange(customer, field, value)
    /\ UNCHANGED <<currentView, now, khataVars, billingVars, loanVars, invoiceNumber,
                   byajVars, exportVars, remoteVars>>

----------------------------------------------------------------------------
(* Byajbook: the interest computation of LoanDetails *)

TicksPerDay == 16                    \* 1000 * 3600 * 24 ms, in ticks of 5 400 000 ms
DaysPerMonthThirty == Rat(30, 1)     \* variant of DaysPerMonth: a 30-day month
DaysPerMonth == Rat(487, 16)         \* 30.4375
DaysPerYear  == Rat(1461, 4)         \* 365.25

\* Variant of LoanDetailsCalc: the time difference taken as it is, without
\* Math.max(0, ...).
LoanDetailsCalcUnclamped(l, currentDate) ==
    IF l.interestType = "SIMPLE"
    THEN LET timeDiff == currentDate - l.loanDate
             days     == Rat(timeDiff, TicksPerDay)
             interestAmount ==
                 IF l.interestRatePeriod = "MONTHLY"
                 THEN LET months == RatDiv(days, DaysPerMonth)
                      IN  RatDiv(RatMul(RatInt(l.principalAmount * l.interestRate), months),
                                 RatInt(100))
                 ELSE LET years == RatDiv(days, DaysPerYear)
                      IN  RatDiv(RatMul(RatInt(l.principalAmount * l.interestRate), years),
                                 RatInt(100))
         IN  [interest     |-> interestAmount,
              totalPayable |-> RatAdd(RatInt(l.principalAmount), interestAmount),
              daysPassed   |-> RatFloor(days)]
    ELSE [interest |-> Zero, totalPayable |-> RatInt(l.principalAmount), daysPassed |-> 0]

\* Variant of LoanDetailsCalc: Math.abs in place of Math.max(0, ...).
LoanDetailsCalcAbs(l, currentDate) ==
    IF l.interestType = "SIMPLE"
    THEN LET timeDiff == currentDate - l.loanDate
             days     == Rat(Abs(timeDiff), TicksPerDay)
             interestAmount ==
                 IF l.interestRatePeriod = "MONTHLY"
                 THEN LET months == RatDiv(days, DaysPerMonth)
                      IN  RatDiv(RatMul(RatInt(l.principalAmount * l.interestRate), months),
                                 RatInt(100))
                 ELSE LET years == RatDiv(days, DaysPerYear)
                      IN  RatDiv(RatMul(RatInt(l.principalAmount * l.interestRate), years),
                                 RatInt(100))
         IN  [interest     |-> interestAmount,
              totalPayable |-> RatAdd(RatInt(l.principalAmount), interestAmount),
              daysPassed   |-> RatFloor(days)]
    ELSE [interest |-> Zero, totalPayable |-> RatInt(l.principalAmount), daysPassed |-> 0]

\* Variant of LoanDetailsCalc: the interest type is not looked at.
LoanDetailsCalcAnyType(l, currentDate) ==
    LET timeDiff == currentDate - l.loanDate
        days     == RatMax(Zero, Rat(timeDiff, TicksPerDay))
        interestAmount ==
            IF l.interestRatePeriod = "MONTHLY"
            THEN LET months == RatDiv(days, DaysPerMonth)
                 IN  RatDiv(RatMul(RatInt(l.principalAmount * l.interestRate), months),
                            RatInt(100))
            ELSE LET years == RatDiv(days, DaysPerYear)
                 IN  RatDiv(RatMul(RatInt(l.principalAmount * l.interestRate), years),
                            RatInt(100))
    IN  [interest     |-> interestAmount,
         totalPayable |-> RatAdd(RatInt(l.principalAmount), interestAmount),
         daysPassed   |-> RatFloor(days)]

\* LoanDetails: the useMemo giving { interest, totalPayable, daysPassed };
\* currentDate and loanDate are clock readings in ticks.
LoanDetailsCalc(l, currentDate) ==
    IF l.interestType = "SIMPLE"
    THEN LET timeDiff == currentDate - l.loanDate
             days     == RatMax(Zero, Rat(timeDiff, TicksPerDay))
             interestAmount ==
                 IF l.interestRatePeriod = "MONTHLY"
                 THEN LET months == RatDiv(days, DaysPerMonth)
                      IN  RatDiv(RatMul(RatInt(l.principalAmount * l.interestRate), months),
                                 RatInt(100))
                 ELSE LET years == RatDiv(days, DaysPerYear)
                      IN  RatDiv(RatMul(RatInt(l.principalAmount * l.interestRate), years),
                                 RatInt(100))
         IN  [interest     |-> interestAmount,
              totalPayable |-> RatAdd(RatInt(l.principalAmount), interestAmount),
              daysPassed   |-> RatFloor(days)]
    ELSE [interest |-> Zero, totalPayable |-> RatInt(l.principalAmount), daysPassed |-> 0]

\* The loans handed to LoanDetails and the instants at which it renders.
Principals    == {600, 10000}
InterestRates == {2, 3}
LoanDates     == {16, 40}
EvalInstants  == {0, 16, 40, 56, 503, 527, 990, 5860}

LoanInputs ==
    [principalAmount : Principals, interestRate : InterestRates,
     interestRatePeriod : {"MONTHLY", "ANNUAL"}, interestType : {"SIMPLE", "COMPOUND"},
     loanDate : LoanDates]

\* The wall clock reaches another instant.
ClockTo(t) ==
    /\ t # now
    /\ now' = t
    /\ UNCHANGED <<currentView, khataVars, billingVars, loanVars,
                   sessionVars, byajVars, exportVars, remoteVars>>

\* LoanDetails renders: currentDate = new Date(), then the useMemo.
RenderLoanDetails ==
    /\ currentView = "byajbook"
    /\ loanCalc' = <<LoanDetailsCalc(loan, now)>>
    /\ UNCHANGED <<currentView, now, khataVars, billingVars, loan,
                   sessionVars, byajVars, exportVars, remoteVars>>

----------------------------------------------------------------------------
(* Byajbook: the view machine, the add-loan form and App.handleAddLoan *)

MaxLoans     == 2    \* loans ever added
MaxMortgaged == 2    \* mortgaged items held by the add-loan form

BorrowerNames  == {"", "Ravi"}
BorrowerPhones == {"", "9876543210"}
PrincipalInputs == {"", "abc", "-5", "0", "100"}
RateInputs      == {"", "0", "2"}
RatePeriods     == {"MONTHLY", "ANNUAL"}

LoanForms ==
    [borrowerName : BorrowerNames, borrowerPhone : BorrowerPhones,
     principal : PrincipalInputs, rate : RateInputs, ratePeriod : RatePeriods]

ItemForms ==
    [itemDesc : {"", "Chain"}, itemWeight : {"abc", "0", "2"},
     itemPurity : {"", "22K"}, itemValue : {"", "0", "100"}]

\* Byajbook: selectedLoan, loans.find(...) || null, as "is not null"
HasSelectedLoan == \E i \in 1..Len(byajLoans) : byajLoans[i].id = selectedLoanId

ByajbookMounted == currentView = "byajbook"

\* AddLoanForm.handleAddItem on the form's item list
AddLoanFormAddItem(its, f) ==
    LET weight == parseFloat(f.itemWeight)
        value  == parseFloat(f.itemValue)
    IN  IF /\ f.itemDesc # "" /\ ~isNaN(weight) /\ Gt(weight, Num(0))
           /\ f.itemPurity # "" /\ ~isNaN(value) /\ Gt(value, Num(0))
        THEN Append(its, [description |-> f.itemDesc, weight |-> weight.val,
                          purity |-> f.itemPurity, estimatedValue |-> value.val])
        ELSE its

\* AddLoanForm.handleRemoveItem: items.filter((_, i) => i !== index)
AddLoanFormRemoveItem(its, index) ==
    SubSeq(its, 1, index - 1) \o SubSeq(its, index + 1, Len(its))

\* App.handleAddLoan.  The id (ISO time + Math.random()) is fresh; the model
\* uses the insertion ordinal.
handleAddLoan(loans, loanData) ==
    Append(loans, [id |-> Len(loans) + 1,
                   borrower |-> loanData.borrower,
                   principalAmount |-> loanData.principalAmount,
                   interestRate |-> loanData.interestRate,
                   interestRatePeriod |-> loanData.interestRatePeriod,
                   interestType |-> loanData.interestType,
                   loanDate |-> loanData.loanDate,
                   mortgagedItems |-> loanData.mortgagedItems])

\* What handleSubmit hands to onSave.
LoanData(its, f, clock) ==
    [borrower |-> [name |-> f.borrowerName, phone |-> f.borrowerPhone],
     principalAmount |-> parseFloat(f.principal).val,
     interestRate |-> parseFloat(f.rate).val,
     interestRatePeriod |-> f.ratePeriod,
     interestType |-> "SIMPLE",
     loanDate |-> clock,
     mortgagedItems |-> its]

\* Variant of AddLoanFormSubmit: the test for a mortgaged item left out.
AddLoanFormSubmitNoItemTest(loans, view, its, f, clock) ==
    IF /\ f.borrowerName # "" /\ f.borrowerPhone # ""
       /\ Gt(parseFloat(f.principal), Num(0)) /\ Gt(parseFloat(f.rate), Num(0))
    THEN [loans |-> handleAddLoan(loans, LoanData(its, f, clock)), view |-> "LIST",
          alerted |-> FALSE]
    ELSE [loans |-> loans, view |-> view, alerted |-> TRUE]

\* Variant of AddLoanFormSubmit: the view goes to LIST after a rejected save too.
AddLoanFormSubmitAlwaysBack(loans, view, its, f, clock) ==
    IF /\ f.borrowerName # "" /\ f.borrowerPhone # ""
       /\ Gt(parseFloat(f.principal), Num(0)) /\ Gt(parseFloat(f.rate), Num(0))
       /\ Len(its) > 0
    THEN [loans |-> handleAddLoan(loans, LoanData(its, f, clock)), view |-> "LIST",
          alerted |-> FALSE]
    ELSE [loans |-> loans, view |-> "LIST", alerted |-> TRUE]

\* AddLoanForm.handleSubmit as an operator on (loans, view); onSave is
\* Byajbook's: onAddLoan(loanData), setView('LIST')
AddLoanFormSubmit(loans, view, its, f, clock) ==
    IF /\ f.borrowerName # "" /\ f.borrowerPhone # ""
       /\ Gt(parseFloat(f.principal), Num(0)) /\ Gt(parseFloat(f.rate), Num(0))
       /\ Len(its) > 0
    THEN [loans |-> handleAddLoan(loans, LoanData(its, f, clock)), view |-> "LIST",
          alerted |-> FALSE]
    ELSE [loans |-> loans, view |-> view, alerted |-> TRUE]

\* LoanList.onAddLoan
OnAddLoan ==
    /\ ByajbookMounted /\ byajbookView = "LIST"
    /\ byajbookView' = "ADD_LOAN"
    /\ mortgagedItems' = <<>>
    /\ UNCHANGED <<currentView, now, khataVars, billingVars, loanVars, sessionVars,
                   byajLoans, selectedLoanId, exportVars, remoteVars>>

\* AddLoanForm.onBack
AddLoanBack ==
    /\ ByajbookMounted /\ byajbookView = "ADD_LOAN"
    /\ byajbookView' = "LIST"
    /\ mortgagedItems' = <<>>
    /\ UNCHANGED <<currentView, now, khataVars, billingVars, loanVars, sessionVars,
                   byajLoans, selectedLoanId, exportVars, remoteVars>>

\* AddLoanForm: the add-item button
AddMortgagedItem(f) ==
    /\ ByajbookMounted /\ byajbookView = "ADD_LOAN"
    /\ LET its == AddLoanFormAddItem(mortgagedItems, f)
       IN  /\ Len(its) <= MaxMortgaged
           /\ mortgagedItems' = its
    /\ UNCHANGED <<currentView, now, khataVars, billingVars, loanVars, sessionVars,
                   byajLoans, byajbookView, selectedLoanId, exportVars, remoteVars>>

\* AddLoanForm: the remove button of item row index
RemoveMortgagedItem(index) ==
    /\ ByajbookMounted /\ byajbookView = "ADD_LOAN"
    /\ index \in 1..Len(mortgagedItems)
    /\ mortgagedItems' = AddLoanFormRemoveItem(mortgagedItems, index)
    /\ UNCHANGED <<currentView, now, khataVars, billingVars, loanVars, sessionVars,
                   byajLoans, byajbookView, selectedLoanId, exportVars, remoteVars>>

\* AddLoanForm.handleSubmit; a save unmounts the form
AddLoanSubmit(f) ==
    /\ ByajbookMounted /\ byajbookView = "ADD_LOAN"
    /\ LET r == AddLoanFormSubmit(byajLoans, byajbookView, mortgagedItems, f, now)
       IN  /\ Len(r.loans) <= MaxLoans
           /\ byajLoans' = r.loans
           /\ byajbookView' = r.view
           /\ mortgagedItems' = IF r.view = "ADD_LOAN" THEN mortgagedItems ELSE <<>>
    /\ UNCHANGED <<currentView, now, khataVars, billingVars, loanVars, sessionVars,
                   selectedLoanId, exportVars, remoteVars>>

\* Variant of ByajbookRender: DETAILS without the test for a missing loan.
ByajbookRenderUnguarded(view, loans, loanId) ==
    CASE view = "ADD_LOAN" -> "AddLoanForm"
      [] view = "DETAILS"  -> "LoanDetails"
      [] OTHER             -> "LoanList"

\* Byajbook: what the switch on view renders
ByajbookRender(view, loans, loanId) ==
    CASE view = "ADD_LOAN" -> "AddLoanForm"
      [] view = "DETAILS"  -> IF \E i \in 1..Len(loans) : loans[i].id = loanId
                              THEN "LoanDetails" ELSE null
      [] OTHER             -> "LoanList"

\* Khatabook: what the switch on view renders
KhatabookRender(view, ps, partyId) ==
    CASE view = "ADD_CUSTOMER"    -> "AddCustomerForm"
      [] view = "CUSTOMER_LEDGER" -> IF \E i \in 1..Len(ps) : ps[i].id = partyId
                                     THEN "CustomerLedger" ELSE null
      [] view = "ADD_TRANSACTION" -> IF \E i \in 1..Len(ps) : ps[i].id = partyId
                                     THEN "AddTransactionForm" ELSE null
      [] OTHER                    -> "CustomerList"

\* Byajbook: the onSelectLoan callback handed to LoanList
onSelectLoan(loanId) == [selectedLoanId |-> loanId, view |-> "DETAILS"]

\* Khatabook: the onSelectParty callback handed to CustomerList
onSelectParty(partyId) == [selectedPartyId |-> partyId, view |-> "CUSTOMER_LEDGER"]

\* Byajbook: onSelectLoan called with loanId
SelectLoan(loanId) ==
    /\ ByajbookMounted /\ byajbookView = "LIST"
    /\ selectedLoanId' = onSelectLoan(loanId).selectedLoanId
    /\ byajbookView' = onSelectLoan(loanId).view
    /\ UNCHANGED <<currentView, now, khataVars, billingVars, loanVars, sessionVars,
                   byajLoans, mortgagedItems, exportVars, remoteVars>>

\* LoanList: a click on listed loan i
OnSelectLoan(i) ==
    /\ i \in 1..Len(byajLoans)
    /\ SelectLoan(byajLoans[i].id)

\* LoanDetails.onBack; LoanDetails is unmounted
LoanDetailsBack ==
    /\ ByajbookMounted
    /\ ByajbookRender(byajbookView, byajLoans, selectedLoanId) = "LoanDetails"
    /\ byajbookView' = "LIST"
    /\ isProcessingPdf' = FALSE
    /\ pendingExports' = Unmounted(pendingExports, {"loan"})
    /\ UNCHANGED <<currentView, now, khataVars, billingVars, loanVars, sessionVars,
                   byajLoans, selectedLoanId, mortgagedItems, isGeneratingPdf,
                   isAuthenticated, remoteVars>>

\* Khatabook: onSelectParty called with partyId
SelectParty(partyId) ==
    /\ KhatabookMounted /\ khatabookView = "LIST"
    /\ selectedPartyId' = onSelectParty(partyId).selectedPartyId
    /\ khatabookView' = onSelectParty(partyId).view
    /\ UNCHANGED <<currentView, now, parties, khataTransactions, transactionType,
                   billingVars, loanVars, sessionVars, byajVars, exportVars, remoteVars>>

----------------------------------------------------------------------------
(* Document export: handleGeneratePdf of CustomerLedger and of LoanDetails *)

MaxExports == 2    \* handleGeneratePdf calls waiting for their upload

MaxTokens  == 2    \* distinct access tokens the token client hands out
MaxFetches == 2    \* fetchUserProfile calls waiting at the same time

Tokens == 1..MaxTokens

\* What the token client passes to its callback: an error, an access token,
\* or neither.
TokenResponses ==
    {[error |-> TRUE, access_token |-> 0]}
        \cup {[error |-> FALSE, access_token |-> t] : t \in 0..MaxTokens}

\* The four values signOut writes, as a record.
AuthState(flag, profile, token, stored) ==
    [isAuthenticated |-> flag, user |-> profile, accessToken |-> token,
     storedToken |-> stored]

\* GoogleAuthProvider.signOut (the revocation request has no effect on the
\* provider's own state)
signOut(auth) == AuthState(FALSE, null, 0, 0)

\* GoogleAuthProvider.fetchUserProfile from the response onwards
fetchUserProfileSettled(auth, token, ok) ==
    IF ok
    THEN AuthState(auth.isAuthenticated, "profile", auth.accessToken, token)
    ELSE signOut(auth)

\* GoogleAuthProvider.initializeGis: the token client is created and a token
\* found in sessionStorage signs the user in
InitializeGis ==
    /\ ~tokenClient
    /\ tokenClient' = TRUE
    /\ IF storedToken # 0
       THEN /\ accessToken' = storedToken
            /\ isAuthenticated' = TRUE
            /\ profileFetches' = Append(profileFetches, storedToken)
       ELSE UNCHANGED <<accessToken, isAuthenticated, profileFetches>>
    /\ UNCHANGED <<currentView, now, khataVars, billingVars, loanVars, sessionVars,
                   byajVars, isGeneratingPdf, isProcessingPdf, pendingExports,
                   user, storedToken, tokenRequested, driveVars, feedVars>>

\* GoogleAuthProvider.signIn, from the button SettingsModal shows unless a
\* user is signed in with a profile
SignIn ==
    /\ ~(isAuthenticated /\ user # null)
    /\ tokenRequested' = tokenClient
    /\ UNCHANGED <<currentView, now, khataVars, billingVars, loanVars, sessionVars,
                   byajVars, exportVars, user, accessToken, storedToken,
                   profileFetches, tokenClient, driveVars, feedVars>>

\* The callback given to initTokenClient
TokenCallback(tokenResponse) ==
    /\ tokenRequested
    /\ tokenRequested' = FALSE
    /\ IF ~tokenResponse.error /\ tokenResponse.access_token # 0
       THEN /\ Len(profileFetches) < MaxFetches
            /\ accessToken' = tokenResponse.access_token
            /\ profileFetches' = Append(profileFetches, tokenResponse.access_token)
            /\ isAuthenticated' = TRUE
       ELSE UNCHANGED <<accessToken, profileFetches, isAuthenticated>>
    /\ UNCHANGED <<currentView, now, khataVars, billingVars, loanVars, sessionVars,
                   byajVars, isGeneratingPdf, isProcessingPdf, pendingExports,
                   user, storedToken, tokenClient, driveVars, feedVars>>

\* The userinfo request of waiting call k is answered and fetchUserProfile
\* runs to its end.
ProfileFetchSettles(k, ok) ==
    /\ k \in 1..Len(profileFetches)
    /\ LET r == fetchUserProfileSettled(
                    AuthState(isAuthenticated, user, accessToken, storedToken),
                    profileFetches[k], ok)
       IN  /\ isAuthenticated' = r.isAuthenticated
           /\ user' = r.user
           /\ accessToken' = r.accessToken
           /\ storedToken' = r.storedToken
    /\ profileFetches' = SubSeq(profileFetches, 1, k - 1)
                            \o SubSeq(profileFetches, k + 1, Len(profileFetches))
    /\ UNCHANGED <<currentView, now, khataVars, billingVars, loanVars, sessionVars,
                   byajVars, isGeneratingPdf, isProcessingPdf, pendingExports,
                   tokenClient, tokenRequested, driveVars, feedVars>>

\* GoogleAuthProvider.signOut, from the button SettingsModal shows while a
\* user is signed in with a profile
SignOut ==
    /\ isAuthenticated /\ user # null
    /\ LET r == signOut(AuthState(isAuthenticated, user, accessToken, storedToken))
       IN  /\ isAuthenticated' = r.isAuthenticated
           /\ user' = r.user
           /\ accessToken' = r.accessToken
           /\ storedToken' = r.storedToken
    /\ UNCHANGED <<currentView, now, khataVars, billingVars, loanVars, sessionVars,
                   byajVars, isGeneratingPdf, isProcessingPdf, pendingExports,
                   profileFetches, tokenClient, tokenRequested, driveVars, feedVars>>

MaxCreateRequests == 2    \* folder-creation requests Drive receives

\* handleGeneratePdf from setting its flag up to its first await, as an
\* operator on (flag, pending calls).  If rendering throws, or if nobody is
\* signed in and doc.save() has returned, the finally block has cleared the
\* flag when the handler ends.  Signed in, the call enters uploadPdfToDrive
\* with the flag set and stops at the folder search, or at the upload request
\* when folderIdCache is set.  (marked: the call is the one an observer
\* follows to its end.)
StartExport(flag, exports, origin, renders, authenticated, cache, marked) ==
    IF renders /\ authenticated
    THEN [flag |-> TRUE,
          exports |-> Append(exports, [origin |-> origin, mounted |-> TRUE,
                                       awaiting |-> IF cache # 0 THEN "upload"
                                                    ELSE "search",
                                       marked |-> marked])]
    ELSE [flag |-> FALSE, exports |-> exports]

Marked(exports) == \E k \in 1..Len(exports) : exports[k].marked

\* CustomerLedger: the share button, disabled while isGeneratingPdf
LedgerGeneratePdf(renders, marked) ==
    /\ KhatabookMounted
    /\ KhatabookRender(khatabookView, parties, selectedPartyId) = "CustomerLedger"
    /\ ~isGeneratingPdf
    /\ marked => ~Marked(pendingExports)
    /\ IF Len(LedgerTransactions(selectedParty, khataTransactions)) = 0
       THEN UNCHANGED <<isGeneratingPdf, pendingExports>>
       ELSE LET r == StartExport(isGeneratingPdf, pendingExports, "ledger", renders,
                                 isAuthenticated /\ accessToken # 0,
                                 folderIdCache, marked)
            IN  /\ Len(r.exports) <= MaxExports
                /\ isGeneratingPdf' = r.flag
                /\ pendingExports' = r.exports
    /\ UNCHANGED <<currentView, now, khataVars, billingVars, loanVars, sessionVars,
                   byajVars, isProcessingPdf, isAuthenticated, remoteVars>>

\* LoanDetails: the PDF button, disabled while isProcessingPdf
LoanGeneratePdf(renders, marked) ==
    /\ ByajbookMounted
    /\ ByajbookRender(byajbookView, byajLoans, selectedLoanId) = "LoanDetails"
    /\ ~isProcessingPdf
    /\ marked => ~Marked(pendingExports)
    /\ LET r == StartExport(isProcessingPdf, pendingExports, "loan", renders,
                            isAuthenticated /\ accessToken # 0, folderIdCache, marked)
       IN  /\ Len(r.exports) <= MaxExports
           /\ isProcessingPdf' = r.flag
           /\ pendingExports' = r.exports
    /\ UNCHANGED <<currentView, now, khataVars, billingVars, loanVars, sessionVars,
                   byajVars, isGeneratingPdf, isAuthenticated, remoteVars>>

\* A variant in which a call that ends leaves the flags as they are.
ExportEndsFlagKept(k) ==
    /\ pendingExports' = SubSeq(pendingExports, 1, k - 1)
                            \o SubSeq(pendingExports, k + 1, Len(pendingExports))
    /\ UNCHANGED <<isGeneratingPdf, isProcessingPdf>>

\* Pending call k leaves uploadPdfToDrive, by return or by throw, and runs
\* on through its finally block, which clears the flag of the component
\* instance that started it if that instance is still mounted.
ExportEnds(k) ==
    /\ pendingExports' = SubSeq(pendingExports, 1, k - 1)
                            \o SubSeq(pendingExports, k + 1, Len(pendingExports))
    /\ isGeneratingPdf' =
          IF pendingExports[k].origin = "ledger" /\ pendingExports[k].mounted
          THEN FALSE ELSE isGeneratingPdf
    /\ isProcessingPdf' =
          IF pendingExports[k].origin = "loan" /\ pendingExports[k].mounted
          THEN FALSE ELSE isProcessingPdf

\* getAppFolderId of pending call k: the folder search is answered.  A failed
\* search throws; a search that lists a folder caches its id; otherwise the
\* creation request is sent.
SearchSettles(k, ok) ==
    /\ k \in 1..Len(pendingExports)
    /\ pendingExports[k].awaiting = "search"
    /\ IF ~ok
       THEN ExportEnds(k) /\ UNCHANGED driveVars
       ELSE /\ UNCHANGED <<isGeneratingPdf, isProcessingPdf, driveFolders>>
            /\ IF driveFolders > 0
               THEN /\ folderIdCache' \in 1..driveFolders
                    /\ pendingExports' = [pendingExports EXCEPT ![k].awaiting = "upload"]
                    /\ UNCHANGED createRequests
               ELSE /\ createRequests < MaxCreateRequests
                    /\ createRequests' = createRequests + 1
                    /\ pendingExports' = [pendingExports EXCEPT ![k].awaiting = "create"]
                    /\ UNCHANGED folderIdCache
    /\ UNCHANGED <<currentView, now, khataVars, billingVars, loanVars, sessionVars,
                   byajVars, isAuthenticated, authVars, feedVars>>

\* getAppFolderId of pending call k: the creation request is answered.  A
\* created folder's id is cached; a failed creation throws.
CreateSettles(k, ok) ==
    /\ k \in 1..Len(pendingExports)
    /\ pendingExports[k].awaiting = "create"
    /\ IF ~ok
       THEN ExportEnds(k) /\ UNCHANGED driveVars
       ELSE /\ driveFolders' = driveFolders + 1
            /\ folderIdCache' = driveFolders + 1
            /\ pendingExports' = [pendingExports EXCEPT ![k].awaiting = "upload"]
            /\ UNCHANGED <<isGeneratingPdf, isProcessingPdf, createRequests>>
    /\ UNCHANGED <<currentView, now, khataVars, billingVars, loanVars, sessionVars,
                   byajVars, isAuthenticated, authVars, feedVars>>

\* uploadPdfToDrive of pending call k: the upload request is answered, with
\* success or with an error, and the call ends.
ExportSettles(k) ==
    /\ k \in 1..Len(pendingExports)
    /\ pendingExports[k].awaiting = "upload"
    /\ ExportEnds(k)
    /\ UNCHANGED <<currentView, now, khataVars, billingVars, loanVars, sessionVars,
                   byajVars, isAuthenticated, remoteVars>>

----------------------------------------------------------------------------
(* useLiveRates: the rate feed *)

MaxRows == 2    \* rows in a payload of the feed

\* The rows a payload can hold: a metal's name and its rate text (for 10 g of
\* gold, for 1 kg of silver).
RateRows ==
    {[Item |-> "GOLD", Rate |-> "600"], [Item |-> "GOLD", Rate |-> "abc"],
     [Item |-> "GOLD", Rate |-> ""], [Item |-> "Silver", Rate |-> "1000"],
     [Item |-> "Silver", Rate |-> "abc"], [Item |-> "Silver", Rate |-> ""],
     [Item |-> "Platinum", Rate |-> "1000"]}

Payloads == UNION {[1..n -> RateRows] : n \in 0..MaxRows}

\* What the feed answers: an HTTP status that is ok or not, and a JSON body
\* that is an array of rows or something else.
RateResponses ==
    {[ok |-> FALSE, isArray |-> FALSE, data |-> <<>>],
     [ok |-> TRUE, isArray |-> FALSE, data |-> <<>>]}
        \cup {[ok |-> TRUE, isArray |-> TRUE, data |-> d] : d \in Payloads}

\* item.Item.toLowerCase().includes(word) on the names the model draws
LowerCaseIncludes(name, word) ==
    \/ name = "GOLD" /\ word = "gold"
    \/ name = "Silver" /\ word = "silver"

\* data.find(...): the rows whose name includes the word, in payload order
Find(data, word) == SelectSeq(data, LAMBDA row : LowerCaseIncludes(row.Item, word))

\* The per-gram rate of the first row found: NaN when there is no such row
\* or its Rate is empty, parseFloat(Rate) / divisor otherwise.
RatePerGram(data, word, divisor) ==
    LET found == Find(data, word)
    IN  IF found = <<>> \/ found[1].Rate = "" THEN NaN
        ELSE LET rate == parseFloat(found[1].Rate)
             IN  IF isNaN(rate) THEN NaN ELSE Num(rate.val \div divisor)

\* A variant in which a failed call drops the table fetched before.
fetchRatesFailedDropsTable(prevRates, message) ==
    [rates |-> EmptyMap, isLoading |-> FALSE, error |-> message]

\* fetchRates: the catch and finally blocks.  A failed call leaves the table
\* alone and sets the error.
fetchRatesFailed(prevRates, message) ==
    [rates |-> prevRates, isLoading |-> FALSE, error |-> message]

\* fetchRates from the response onwards, as an operator on the rate table
fetchRatesSettled(prevRates, response) ==
    IF ~response.ok THEN fetchRatesFailed(prevRates, "HTTP error")
    ELSE IF ~response.isArray
         THEN fetchRatesFailed(prevRates, "Invalid data format from API")
    ELSE LET goldRatePerGram   == RatePerGram(response.data, "gold", 10)
             silverRatePerGram == RatePerGram(response.data, "silver", 1000)
         IN  IF ~isNaN(goldRatePerGram) /\ ~isNaN(silverRatePerGram)
             THEN [rates |-> [GOLD |-> goldRatePerGram.val, SILVER |-> silverRatePerGram.val],
                   isLoading |-> FALSE, error |-> null]
             ELSE fetchRatesFailed(prevRates, "Invalid data format from API")

\* The refresh button of the billing view, disabled while isLoading:
\* fetchRates up to its await
RefetchRates ==
    /\ BillingMounted
    /\ ~isLoading
    /\ isLoading' = TRUE
    /\ rateError' = null
    /\ rateFetches' = rateFetches + 1
    /\ UNCHANGED <<currentView, now, khataVars, billingVars, loanVars, sessionVars,
                   byajVars, exportVars, authVars, driveVars>>

\* The feed answers a waiting fetchRates call, which runs to its end.
RateFetchSettles(response) ==
    /\ rateFetches > 0
    /\ rateFetches' = rateFetches - 1
    /\ LET r == fetchRatesSettled(rates, response)
       IN  /\ rates' = r.rates
           /\ isLoading' = r.isLoading
           /\ rateError' = r.error
    /\ UNCHANGED <<currentView, now, khataVars, items, gstRate, error, discountType,
                   discountValue, loanVars, sessionVars, byajVars, exportVars,
                   authVars, driveVars>>

----------------------------------------------------------------------------
(* Specifications *)

\* The initial values of the session header, the Byajbook and the exports.
InitSessionAndBooks ==
    /\ customer = [name |-> "", phone |-> ""]
    /\ invoiceNumber = 1
    /\ byajLoans = <<>>
    /\ byajbookView = "LIST"
    /\ selectedLoanId = null
    /\ mortgagedItems = <<>>
    /\ isGeneratingPdf = FALSE
    /\ isProcessingPdf = FALSE
    /\ pendingExports = <<>>

\* useLiveRates after construction: the first fetchRates call is waiting,
\* unless the feed has already delivered.
InitFeed ==
    /\ isLoading = (DOMAIN rates = {})
    /\ rateError = null
    /\ rateFetches = (IF DOMAIN rates = {} THEN 1 ELSE 0)

\* GoogleAuthProvider after construction, before initializeGis has run
InitProvider ==
    /\ isAuthenticated = FALSE
    /\ user = null
    /\ accessToken = 0
    /\ profileFetches = <<>>
    /\ tokenClient = FALSE
    /\ tokenRequested = FALSE

\* googleDrive after the module is loaded, and a Drive without the folder
InitDrive ==
    /\ folderIdCache = 0
    /\ driveFolders = 0
    /\ createRequests = 0

InitRemote ==
    /\ InitFeed
    /\ InitProvider
    /\ storedToken = 0
    /\ InitDrive

\* App and its components after construction, before the feed has answered
InitApp ==
    /\ currentView = "billing"
    /\ now = 0
    /\ parties = <<>>
    /\ khataTransactions = <<>>
    /\ khatabookView = "LIST"
    /\ selectedPartyId = null
    /\ transactionType = "CREDIT"
    /\ items = <<>>
    /\ gstRate = 3
    /\ rates = NoRates
    /\ error = null
    /\ discountType = "PERCENT"
    /\ discountValue = ""
    /\ loan = null
    /\ loanCalc = <<>>
    /\ InitSessionAndBooks

Init == InitApp /\ InitRemote

NextKhata ==
    \/ \E v \in Tabs : SetCurrentView(v)
    \/ Tick
    \/ ClockSetBack
    \/ OnAddCustomer
    \/ \E f \in SubmittedPartyForms : AddCustomerSubmit(f.name, f.phone, f.type)
    \/ AddCustomerBack
    \/ \E i \in 1..MaxParties : OnSelectParty(i)
    \/ LedgerBack
    \/ \E type \in TxnTypes : OnAddTransaction(type)
    \/ \E amount \in AmountInputs : AddTransactionSubmit(amount)
    \/ AddTransactionBack

\* The Khatabook with its navigation, the tabs and the clock.
SpecKhata == Init /\ [][NextKhata]_vars

\* The rate tables the feed has delivered before billing starts.
RateTables == {[GOLD |-> 60, SILVER |-> 1], [GOLD |-> 70, SILVER |-> 2]}

InitBilling ==
    /\ currentView = "billing"
    /\ now = 0
    /\ parties = <<>>
    /\ khataTransactions = <<>>
    /\ khatabookView = "LIST"
    /\ selectedPartyId = null
    /\ transactionType = "CREDIT"
    /\ items = <<>>
    /\ gstRate = 3
    /\ rates \in RateTables
    /\ error = null
    /\ discountType = "PERCENT"
    /\ discountValue = ""
    /\ loan = null
    /\ loanCalc = <<>>
    /\ InitSessionAndBooks
    /\ InitRemote

NextBilling ==
    \/ \E v \in Tabs : SetCurrentView(v)
    \/ \E f \in SubmitInputs : BillingSubmitUpTo(f, MaxItems)
    \/ \E text \in GstInputs : GstRateChange(text)
    \/ \E text \in DiscountInputs : SetDiscountValue(text)
    \/ \E type \in DiscountTypes : SetDiscountType(type)

\* The billing session once rates are loaded.  Item ids play no part in
\* validation or totals, so the clock is left standing here.
SpecBilling == InitBilling /\ [][NextBilling]_vars

InitInterest ==
    /\ currentView = "byajbook"
    /\ now \in EvalInstants
    /\ parties = <<>>
    /\ khataTransactions = <<>>
    /\ khatabookView = "LIST"
    /\ selectedPartyId = null
    /\ transactionType = "CREDIT"
    /\ items = <<>>
    /\ gstRate = 3
    /\ rates = NoRates
    /\ error = null
    /\ discountType = "PERCENT"
    /\ discountValue = ""
    /\ loan \in LoanInputs
    /\ loanCalc = <<>>
    /\ InitSessionAndBooks
    /\ InitRemote

NextInterest ==
    \/ \E t \in EvalInstants : ClockTo(t)
    \/ RenderLoanDetails

\* The interest engine on its own: LoanDetails showing one loan, rendered at
\* the instants the clock reaches.
SpecInterest == InitInterest /\ [][NextInterest]_vars

NextBillingForm ==
    \/ \E v \in Tabs : SetCurrentView(v)
    \/ \E f \in FormInputs : BillingSubmitUpTo(f, MaxFormItems)

\* The billing form alone, submitted with every combination of field texts.
SpecBillingForm == InitBilling /\ [][NextBillingForm]_vars

\* The forms the session specification submits: a gold and a silver ring.
SessionForms ==
    {f \in FormInputs :
        /\ \A k \in DOMAIN PlainFields : f[k] \in PlainFields[k]
        /\ f.makingChargeValue = "3" /\ f.makingChargeType = "PER_GRAM" /\ f.applyGst}

NextSession ==
    \/ \E v \in Tabs : SetCurrentView(v)
    \/ Tick
    \/ \E f \in SessionForms : BillingSubmitUpTo(f, MaxSessionItems)
    \/ \E i \in 1..MaxSessionItems : RemoveItem(i)
    \/ ClearInvoice
    \/ \E text \in InvoiceNumberInputs : InvoiceNumberChange(text)
    \/ \E text \in GstInputs : GstRateChange(text)
    \/ \E name \in CustomerNames : CustomerChange("name", name)
    \/ \E phone \in CustomerPhones : CustomerChange("phone", phone)
    \/ \E text \in {"", "50"} : SetDiscountValue(text)
    \/ \E type \in DiscountTypes : SetDiscountType(type)

\* The billing session with its header: items added and removed, the invoice
\* cleared, customer, invoice number, tax rate and discount edited.
SpecSession == InitBilling /\ [][NextSession]_vars

NextByaj ==
    \/ \E v \in Tabs : SetCurrentView(v)
    \/ OnAddLoan
    \/ AddLoanBack
    \/ \E f \in ItemForms : AddMortgagedItem(f)
    \/ \E index \in 1..MaxMortgaged : RemoveMortgagedItem(index)
    \/ \E f \in LoanForms : AddLoanSubmit(f)
    \/ \E i \in 1..MaxLoans : OnSelectLoan(i)
    \/ LoanDetailsBack

\* The Byajbook with its navigation and the add-loan form, and the tabs.
SpecByaj == Init /\ [][NextByaj]_vars

\* The identifiers the select callbacks are called with: those of parties and
\* loans that may exist, and one of each that never does.
SelectablePartyIds == {"9876543210", "0000000000"}
SelectableLoanIds  == 0..MaxLoans

NavigationPartyForms == {f \in SubmittedPartyForms : f.phone \in {"9876543210", "12345"}}
NavigationLoanForms ==
    {f \in LoanForms : /\ f.borrowerName = "Ravi" /\ f.borrowerPhone # ""
                        /\ f.principal \in {"abc", "100"} /\ f.rate = "2"
                        /\ f.ratePeriod = "MONTHLY"}
NavigationItemForms ==
    {f \in ItemForms : /\ f.itemDesc = "Chain" /\ f.itemWeight = "2"
                        /\ f.itemPurity = "22K" /\ f.itemValue \in {"", "100"}}

NextNavigation ==
    \/ \E v \in Tabs : SetCurrentView(v)
    \/ OnAddCustomer
    \/ \E f \in NavigationPartyForms : AddCustomerSubmit(f.name, f.phone, f.type)
    \/ AddCustomerBack
    \/ \E partyId \in SelectablePartyIds : SelectParty(partyId)
    \/ LedgerBack
    \/ \E type \in TxnTypes : OnAddTransaction(type)
    \/ \E amount \in {"abc", "40"} : AddTransactionSubmit(amount)
    \/ AddTransactionBack
    \/ OnAddLoan
    \/ AddLoanBack
    \/ \E f \in NavigationItemForms : AddMortgagedItem(f)
    \/ \E f \in NavigationLoanForms : AddLoanSubmit(f)
    \/ \E loanId \in SelectableLoanIds : SelectLoan(loanId)
    \/ LoanDetailsBack

\* Both books with their navigation and the tabs; the select callbacks are
\* called with any identifier, not only with those of listed entities.
SpecNavigation == Init /\ [][NextNavigation]_vars

ExportPartyForms == {f \in SubmittedPartyForms : f.name = "Asha" /\ f.phone = "9876543210"}
ExportLoanForms  == {f \in NavigationLoanForms : f.principal = "100"}
ExportItemForms  == {f \in NavigationItemForms : f.itemValue = "100"}

NextExport ==
    \/ \E v \in Tabs : SetCurrentView(v)
    \/ InitializeGis
    \/ \E k \in 1..MaxFetches, ok \in BOOLEAN : ProfileFetchSettles(k, ok)
    \/ SignOut
    \/ OnAddCustomer
    \/ \E f \in ExportPartyForms : AddCustomerSubmit(f.name, f.phone, f.type)
    \/ \E i \in 1..MaxParties : OnSelectParty(i)
    \/ LedgerBack
    \/ OnAddTransaction("DEBIT")
    \/ AddTransactionSubmit("40")
    \/ AddTransactionBack
    \/ \E renders \in BOOLEAN : LedgerGeneratePdf(renders, FALSE)
    \/ OnAddLoan
    \/ \E f \in ExportItemForms : AddMortgagedItem(f)
    \/ \E f \in ExportLoanForms : AddLoanSubmit(f)
    \/ \E i \in 1..MaxLoans : OnSelectLoan(i)
    \/ LoanDetailsBack
    \/ \E renders \in BOOLEAN : LoanGeneratePdf(renders, FALSE)
    \/ \E k \in 1..MaxExports, ok \in BOOLEAN : SearchSettles(k, ok)
    \/ \E k \in 1..MaxExports, ok \in BOOLEAN : CreateSettles(k, ok)
    \/ \E k \in 1..MaxExports : ExportSettles(k)

\* A page load with or without a token in sessionStorage, and a Drive with or
\* without the application's folder.
InitExport ==
    /\ InitApp
    /\ InitFeed
    /\ InitProvider
    /\ storedToken \in {0, 1}
    /\ folderIdCache = 0
    /\ driveFolders \in {0, 1}
    /\ createRequests = 0

\* Both books with their export buttons and the requests to Drive answered at
\* any later moment; the user is signed in by the token left in
\* sessionStorage and may sign out.
SpecExport == InitExport /\ [][NextExport]_vars

\* Drive answers the request that has waited longest.
OldestAnswered ==
    \/ \E ok \in BOOLEAN : SearchSettles(1, ok)
    \/ \E ok \in BOOLEAN : CreateSettles(1, ok)
    \/ ExportSettles(1)

NextExportFair ==
    \/ \E v \in {"khatabook", "byajbook"} : SetCurrentView(v)
    \/ InitializeGis
    \/ OnAddCustomer
    \/ \E f \in ExportPartyForms : AddCustomerSubmit(f.name, f.phone, f.type)
    \/ \E i \in 1..MaxParties : OnSelectParty(i)
    \/ LedgerBack
    \/ OnAddTransaction("DEBIT")
    \/ AddTransactionSubmit("40")
    \/ \E renders, marked \in BOOLEAN : LedgerGeneratePdf(renders, marked)
    \/ OnAddLoan
    \/ \E f \in ExportItemForms : AddMortgagedItem(f)
    \/ \E f \in ExportLoanForms : AddLoanSubmit(f)
    \/ \E i \in 1..MaxLoans : OnSelectLoan(i)
    \/ LoanDetailsBack
    \/ \E renders, marked \in BOOLEAN : LoanGeneratePdf(renders, marked)
    \/ \E k \in 1..MaxExports, ok \in BOOLEAN : SearchSettles(k, ok)
    \/ \E k \in 1..MaxExports, ok \in BOOLEAN : CreateSettles(k, ok)
    \/ \E k \in 1..MaxExports : ExportSettles(k)

\* The exports of both books when every request to Drive is answered in the
\* end, with success or with an error -- the request that has waited longest
\* is never left unanswered for ever.
SpecExportFair ==
    InitExport /\ [][NextExportFair]_vars /\ WF_vars(OldestAnswered)


InitAuth ==
    /\ InitApp
    /\ InitFeed
    /\ InitProvider
    /\ storedToken \in 0..MaxTokens
    /\ InitDrive

NextAuth ==
    \/ \E v \in Tabs : SetCurrentView(v)
    \/ InitializeGis
    \/ SignIn
    \/ \E r \in TokenResponses : TokenCallback(r)
    \/ \E k \in 1..MaxFetches, ok \in BOOLEAN : ProfileFetchSettles(k, ok)
    \/ SignOut

\* The sign-in provider from a page load on, with or without a token left in
\* sessionStorage, and the tabs.
SpecAuth == InitAuth /\ [][NextAuth]_vars

NextRates ==
    \/ \E v \in Tabs : SetCurrentView(v)
    \/ RefetchRates
    \/ \E response \in RateResponses : RateFetchSettles(response)
    \/ \E f \in SessionForms : BillingSubmitUpTo(f, MaxFormItems)
    \/ \E text \in GstInputs : GstRateChange(text)

\* The rate feed from the first fetch on, with the refresh button, the tabs
\* and a billing session that is being filled.
SpecRates == Init /\ [][NextRates]_vars

----------------------------------------------------------------------------
(* Properties *)

RECURSIVE SumOfType(_, _, _)
SumOfType(rows, k, type) ==
    IF k = 0 THEN 0
    ELSE SumOfType(rows, k - 1, type) + (IF rows[k].type = type THEN rows[k].amount ELSE 0)

PartyLedger(party) == CustomerLedger(LedgerTransactions(party, khataTransactions))

\* C1: the per-party ledger processes a party's transactions in ascending
\* timestamp order, equal timestamps in insertion order; each running balance
\* is the DEBIT sum minus the CREDIT sum up to and including its row; the net
\* balance is the last row's running balance; and [DEBIT 100 @t1, CREDIT 40 @t2]
\* with t1 < t2 gives the balances [100, 60] and the net balance 60.
LedgerRunningBalance ==
    \A i \in 1..Len(parties) :
        LET mine == {k \in 1..Len(khataTransactions) :
                        khataTransactions[k].partyId = parties[i].id}
            L    == PartyLedger(parties[i])
            rows == L.processed
        IN  /\ Len(rows) = Cardinality(mine)
            /\ {rows[k].id : k \in 1..Len(rows)} = {khataTransactions[k].id : k \in mine}
            /\ \A a, b \in 1..Len(rows) :
                   a < b => \/ rows[a].date < rows[b].date
                            \/ rows[a].date = rows[b].date /\ rows[a].id < rows[b].id
            /\ \A k \in 1..Len(rows) :
                   rows[k].balance = SumOfType(rows, k, "DEBIT") - SumOfType(rows, k, "CREDIT")
            /\ L.finalBalance = (IF rows = <<>> THEN 0 ELSE rows[Len(rows)].balance)
            /\ L.transactionRows = Reverse(rows)
            /\ ( /\ Len(rows) = 2
                 /\ rows[1].type = "DEBIT" /\ rows[1].amount = 100
                 /\ rows[2].type = "CREDIT" /\ rows[2].amount = 40
                 /\ rows[1].date < rows[2].date )
               => /\ rows[1].balance = 100 /\ rows[2].balance = 60
                  /\ L.finalBalance = 60

\* C1 witness: a party whose ledger is DEBIT 100 then, later, CREDIT 40.
LedgerExampleReached ==
    /\ \E i \in 1..Len(parties) :
          LET rows == PartyLedger(parties[i]).processed
          IN  /\ Len(rows) = 2
              /\ rows[1].type = "DEBIT" /\ rows[1].amount = 100
              /\ rows[2].type = "CREDIT" /\ rows[2].amount = 40
              /\ rows[1].date < rows[2].date

\* What a caption says about who owes whom.
Meaning(label) ==
    CASE label \in {"Due", "due", "net_balance_get"}          -> "PARTY_OWES_SHOP"
      [] label \in {"Advance", "advance", "net_balance_give"} -> "SHOP_OWES_PARTY"
      [] OTHER                                                -> "NOTHING"

\* C2: the party list, the ledger header and the WhatsApp reminder all present
\* a positive balance (DEBITs exceed CREDITs) as the party owing the shop and
\* a negative balance as the shop owing the party.
BalanceSignUniform ==
    \A i \in 1..Len(parties) :
        LET listBalance  == ListBalance(parties[i], khataTransactions)
            finalBalance == PartyLedger(parties[i]).finalBalance
            expected(b)  == IF b > 0 THEN "PARTY_OWES_SHOP" ELSE "SHOP_OWES_PARTY"
        IN  /\ listBalance # 0 => Meaning(ListLabel(listBalance)) = expected(listBalance)
            /\ finalBalance # 0 =>
                   /\ Meaning(HeaderLabel(finalBalance)) = expected(finalBalance)
                   /\ Meaning(ReminderBalanceType(finalBalance)) = expected(finalBalance)

\* C3: for every party the party list, the per-party ledger and the reports
\* aggregation compute the same balance.
BalancesAgree ==
    \A i \in 1..Len(parties) :
        /\ ListBalance(parties[i], khataTransactions) = PartyLedger(parties[i]).finalBalance
        /\ ReportsBalance(parties[i], khataTransactions) = PartyLedger(parties[i]).finalBalance

\* C3 witness: two parties with transactions, one owing and one owed.
BalancesAgreeReached ==
    \E i, j \in 1..Len(parties) :
        /\ PartyLedger(parties[i]).finalBalance > 0
        /\ PartyLedger(parties[j]).finalBalance < 0

\* What the duplicate test of the claims means: the phone is that of a party
\* already in the set.
PhoneTaken(phone) == \E i \in 1..Len(parties) : parties[i].phone = phone

\* C6: adding a party whose phone number is already in the party set leaves
\* the party set unchanged and signals a duplicate error to the caller (the
\* call throws, or returns something other than what a successful add returns).
DuplicatePartySignalled ==
    \A f \in PartyForms :
        PhoneTaken(f.phone) =>
            LET r == handleAddParty(parties, f)
            IN  /\ r.parties = parties
                /\ (r.threw \/ r.returned # "undefined")

IsPrefix(s, t) == Len(s) <= Len(t) /\ SubSeq(t, 1, Len(s)) = s

\* C7: after any sequence of add-party operations no two parties have the same
\* phone number, every party's identifier is its phone number, and the party
\* set never shrinks (a step only ever appends to it).
PartySetSound ==
    /\ [](\A i, j \in 1..Len(parties) :
             /\ parties[i].id = parties[i].phone
             /\ (i # j => parties[i].phone # parties[j].phone))
    /\ [][IsPrefix(parties, parties')]_vars

\* C7 witness: two parties are in the set and the add-party form is open, so
\* that every number it can submit next is valid and taken, or invalid.
PartySetFullReached ==
    /\ Len(parties) = 2
    /\ khatabookView = "ADD_CUSTOMER"

\* The totals InvoicePreview shows in the current state.
Totals == InvoiceTotals(items, rates, gstRate, discountType, discountValue)

\* C4: the applied discount lies in [0, totalBeforeDiscount], so grandTotal is
\* non-negative and at most totalBeforeDiscount; and whenever the resolved
\* discount is at least totalBeforeDiscount, grandTotal is exactly 0.
DiscountClamped ==
    RatesLoaded =>
        /\ RatLe(Zero, Totals.discountAmount)
        /\ RatLe(Totals.discountAmount, Totals.totalBeforeDiscount)
        /\ RatLe(Zero, Totals.grandTotal)
        /\ RatLe(Totals.grandTotal, Totals.totalBeforeDiscount)
        /\ (RatLe(Totals.totalBeforeDiscount, Totals.resolvedDiscount)
              => Totals.grandTotal = Zero)

\* The rejection conditions as the claim lists them.
NonNumeric(text) == isNaN(parseFloat(text))
Value(text)      == parseFloat(text).val

ListedRejection(f, emptyDescription) ==
    \/ emptyDescription
    \/ NonNumeric(f.grossWeight) \/ NonNumeric(f.netWeight) \/ NonNumeric(f.makingChargeValue)
    \/ Value(f.grossWeight) <= 0 \/ Value(f.netWeight) <= 0
    \/ Value(f.makingChargeValue) < 0
    \/ Value(f.netWeight) > Value(f.grossWeight)

SubmitOutcomeAsListed(f, emptyDescription) ==
    LET r == BillingFormSubmit(items, error, f, now)
    IN  /\ ListedRejection(f, emptyDescription) => r.items = items /\ r.error # null
        /\ ~ListedRejection(f, emptyDescription) =>
               /\ Len(r.items) = Len(items) + 1
               /\ SubSeq(r.items, 1, Len(items)) = items
        /\ ( ~NonNumeric(f.grossWeight) /\ ~NonNumeric(f.netWeight)
             /\ Value(f.netWeight) > Value(f.grossWeight) )
           => r.items = items /\ r.error # null

\* C5 as stated: addItem rejects, with an error message and the item sequence
\* unchanged, whenever the description is empty, a weight or the making charge
\* is non-numeric, a weight is <= 0, the making charge is < 0 or net exceeds
\* gross; in every other case exactly one item is appended.
AddItemRejectsAsListed ==
    \A f \in FormInputs : SubmitOutcomeAsListed(f, f.description = "")

\* C5 amended: the same with "the description is empty or only white space".
AddItemRejectsBlankDescription ==
    \A f \in FormInputs : SubmitOutcomeAsListed(f, Trim(f.description) = "")

\* C5 witness: a submission with net over gross has been rejected while an
\* item added before it is still in the session.
NetOverGrossRejected ==
    /\ Len(items) = 1
    /\ error = "net_weight_error"

ExpectedInterest(l, t) ==
    IF l.interestRatePeriod = "MONTHLY"
    THEN Rat(l.principalAmount * l.interestRate * (t - l.loanDate), 487 * 100)
    ELSE Rat(l.principalAmount * l.interestRate * (t - l.loanDate), 5844 * 100)

\* C8: for a SIMPLE loan evaluated not before the loan date, interest is
\* principal x rate x (elapsedDays / 30.4375) / 100 for a MONTHLY rate and
\* principal x rate x (elapsedDays / 365.25) / 100 for an ANNUAL one (487 and
\* 5844 ticks), totalPayable is principal + interest, and 10000 at 2% MONTHLY
\* after exactly 30.4375 days gives interest 200 and totalPayable 10200.
SimpleInterestFormula ==
    loan.interestType = "SIMPLE" =>
        \A t \in EvalInstants :
            t >= loan.loanDate =>
                LET c == LoanDetailsCalc(loan, t)
                IN  /\ c.interest = ExpectedInterest(loan, t)
                    /\ c.totalPayable = RatAdd(RatInt(loan.principalAmount),
                                               ExpectedInterest(loan, t))
                    /\ ( /\ loan.principalAmount = 10000 /\ loan.interestRate = 2
                         /\ loan.interestRatePeriod = "MONTHLY"
                         /\ t - loan.loanDate = 487 )
                       => c.interest = RatInt(200) /\ c.totalPayable = RatInt(10200)

\* C8 witness: the 10000 at 2% MONTHLY loan rendered 30.4375 days after its date.
SimpleInterestExampleReached ==
    /\ loan.interestType = "SIMPLE" /\ loan.interestRatePeriod = "MONTHLY"
    /\ loan.principalAmount = 10000 /\ loan.interestRate = 2
    /\ now - loan.loanDate = 487
    /\ loanCalc = <<LoanDetailsCalc(loan, now)>>
    /\ loanCalc[1].interest = RatInt(200)

\* C9: for a SIMPLE loan and instants t1 <= t2, the interest at t2 is at least
\* the interest at t1.
InterestMonotone ==
    loan.interestType = "SIMPLE" =>
        \A t1, t2 \in EvalInstants :
            t1 <= t2 => RatLe(LoanDetailsCalc(loan, t1).interest,
                              LoanDetailsCalc(loan, t2).interest)

\* C9 witness: a SIMPLE loan was rendered with interest accrued, and the clock
\* has since moved to a later instant at which more has accrued.
InterestGrewReached ==
    /\ loan.interestType = "SIMPLE"
    /\ loanCalc # <<>>
    /\ RatLt(Zero, loanCalc[1].interest)
    /\ RatLt(loanCalc[1].interest, LoanDetailsCalc(loan, now).interest)

\* C10: for a COMPOUND loan the engine returns interest 0 and totalPayable
\* equal to the principal, at every evaluation instant.
CompoundInterestZero ==
    loan.interestType = "COMPOUND" =>
        \A t \in EvalInstants :
            /\ LoanDetailsCalc(loan, t).interest = Zero
            /\ LoanDetailsCalc(loan, t).totalPayable = RatInt(loan.principalAmount)

\* C10 witness: a COMPOUND loan rendered a year after its date.
CompoundRenderedReached ==
    /\ loan.interestType = "COMPOUND"
    /\ now - loan.loanDate = 5844
    /\ loanCalc = <<LoanDetailsCalc(loan, now)>>


BlankCustomer == [name |-> "", phone |-> ""]

\* C11: clearInvoice empties the item sequence, blanks the customer, adds
\* exactly 1 to the invoice number, resets the discount to (PERCENT, 0) and
\* leaves the tax rate unchanged; clearing an already empty session changes
\* nothing except the invoice number.
ClearInvoiceEffect ==
    RatesLoaded =>
        LET r == handleClear(Session, discountType, discountValue)
            t == InvoiceTotals(r.session.items, rates, r.session.gstRate,
                               r.discountType, r.discountValue)
        IN  /\ r.session.items = <<>>
            /\ r.session.customer = BlankCustomer
            /\ r.session.invoiceNumber = invoiceNumber + 1
            /\ r.session.gstRate = gstRate
            /\ r.discountType = "PERCENT"
            /\ t.resolvedDiscount = Zero /\ t.discountAmount = Zero
            /\ ( items = <<>> /\ customer = BlankCustomer
                 /\ discountType = "PERCENT" /\ parseFloat(discountValue) \in {NaN, Num(0)} )
               => /\ r.session = [Session EXCEPT !.invoiceNumber = invoiceNumber + 1]
                  /\ r.discountType = discountType
                  /\ parseFloat(r.discountValue) \in {NaN, Num(0)}

\* C11 witness: the invoice was cleared twice (only clearing takes the number
\* to 3) with a tax rate other than the initial one, which the clear kept.
ClearedReached ==
    /\ invoiceNumber = 3
    /\ items = <<>> /\ customer = BlankCustomer
    /\ discountType = "PERCENT" /\ discountValue = ""
    /\ gstRate = 18

\* C12: the invoice number is always an integer >= 1; setInvoiceNumber with a
\* non-numeric input or a value below 1 sets it to 1, and clearInvoice only
\* adds 1 to it.
InvoiceNumberPositive ==
    /\ invoiceNumber \in Nat /\ invoiceNumber >= 1
    /\ \A text \in InvoiceNumberInputs :
           /\ handleInvoiceNumberChange(text) \in Nat
           /\ handleInvoiceNumberChange(text) >= 1
           /\ (isNaN(parseInt(text)) \/ parseInt(text).val < 1)
                  => handleInvoiceNumberChange(text) = 1
    /\ handleClearInvoice(Session).invoiceNumber = invoiceNumber + 1

\* C12 witness: the number was set and the invoice cleared, and items have
\* been added to the next invoice.
InvoiceNumberAdvancedReached ==
    /\ invoiceNumber = 3
    /\ items # <<>>

\* C13: the session's tax percentage is always >= 0, and setTaxRate with a
\* non-numeric input sets it to 0.
TaxRateNonNegative ==
    /\ gstRate >= 0
    /\ \A text \in GstInputs : isNaN(parseFloat(text)) => handleGstRateChange(text) = 0

RECURSIVE IsSubsequence(_, _)
IsSubsequence(s, t) ==
    IF s = <<>> THEN TRUE
    ELSE IF t = <<>> THEN FALSE
    ELSE IF Head(s) = Head(t) THEN IsSubsequence(Tail(s), Tail(t))
    ELSE IsSubsequence(s, Tail(t))

\* The identifiers removeItem is called with: those the clock can have given
\* to an item, and one no item has.
RemoveIds == ClockReadings \cup {-1}

\* C14: removeItem(id) removes the item with that identifier (every item
\* bearing it) and is a no-op when no item has it; in both cases the other
\* items remain in their original relative order, and customer, tax rate and
\* invoice number are unchanged.
RemoveItemEffect ==
    \A id \in RemoveIds :
        LET r       == handleRemoveItem(Session, id)
            bearing == {k \in 1..Len(items) : items[k].id = id}
        IN  /\ \A k \in 1..Len(r.items) : r.items[k].id # id
            /\ IsSubsequence(r.items, items)
            /\ Len(r.items) = Len(items) - Cardinality(bearing)
            /\ bearing = {} => r = Session
            /\ r.customer = customer /\ r.gstRate = gstRate
            /\ r.invoiceNumber = invoiceNumber

\* C14 witness: three items, the first two added at the same clock reading
\* and of different metals, the third added later; customer, tax rate and
\* invoice number all away from their initial values.
RemoveItemCaseReached ==
    /\ Len(items) = 3
    /\ items[1].id = items[2].id /\ items[1].metal # items[2].metal
    /\ items[3].id # items[1].id
    /\ customer # BlankCustomer /\ gstRate = 18 /\ invoiceNumber = 2


\* The view changes the Khatabook machine is said to have.
KhatabookTransitions ==
    { <<"LIST", "ADD_CUSTOMER">>, <<"ADD_CUSTOMER", "LIST">>,
      <<"LIST", "CUSTOMER_LEDGER">>, <<"CUSTOMER_LEDGER", "ADD_TRANSACTION">>,
      <<"ADD_TRANSACTION", "CUSTOMER_LEDGER">>, <<"CUSTOMER_LEDGER", "LIST">> }

\* C15: the Khatabook view machine starts in LIST; its view changes only
\* along LIST -> ADD_CUSTOMER -> LIST, LIST -> CUSTOMER_LEDGER -> LIST and
\* CUSTOMER_LEDGER -> ADD_TRANSACTION -> CUSTOMER_LEDGER; and a save that is
\* rejected (it adds no party, no transaction) does not change the view.
KhatabookMachine ==
    /\ khatabookView = "LIST"
    /\ [][khatabookView' # khatabookView
             => <<khatabookView, khatabookView'>> \in KhatabookTransitions]_vars
    /\ [](khatabookView = "ADD_CUSTOMER" =>
             \A f \in PartyForms :
                 LET r == AddCustomerFormSubmit(parties, khatabookView, f.name, f.phone, f.type)
                 IN  r.parties = parties => r.view = khatabookView)
    /\ [](khatabookView = "ADD_TRANSACTION" /\ HasSelectedParty =>
             \A amount \in AmountInputs :
                 LET r == AddTransactionFormSubmit(khataTransactions, khatabookView,
                              selectedParty, transactionType, amount, now)
                 IN  r.transactions = khataTransactions => r.view = khatabookView)


\* The view changes the Byajbook machine is said to have.
ByajbookTransitions ==
    { <<"LIST", "ADD_LOAN">>, <<"ADD_LOAN", "LIST">>,
      <<"LIST", "DETAILS">>, <<"DETAILS", "LIST">> }

\* C16: the Byajbook view machine starts in LIST; its view changes only along
\* LIST -> ADD_LOAN -> LIST and LIST -> DETAILS -> LIST; a save goes to LIST
\* exactly when it adds the loan, and a save rejected by validation leaves the
\* view at ADD_LOAN and the loan set unchanged.
ByajbookMachine ==
    /\ byajbookView = "LIST"
    /\ [][byajbookView' # byajbookView
             => <<byajbookView, byajbookView'>> \in ByajbookTransitions]_vars
    /\ [](byajbookView = "ADD_LOAN" =>
             \A f \in LoanForms :
                 LET r == AddLoanFormSubmit(byajLoans, byajbookView, mortgagedItems, f, now)
                 IN  \/ /\ r.view = "LIST"
                        /\ Len(r.loans) = Len(byajLoans) + 1
                        /\ SubSeq(r.loans, 1, Len(byajLoans)) = byajLoans
                     \/ /\ r.view = "ADD_LOAN"
                        /\ r.loans = byajLoans)

\* C16 witness: two loans were saved and one of them is open in DETAILS.
LoanSavedAndOpenedReached ==
    /\ Len(byajLoans) = 2
    /\ byajbookView = "DETAILS" /\ HasSelectedLoan

\* C19: every loan in the loan set has at least one mortgaged item, a
\* principal > 0 and an interest rate > 0; a save attempted with no mortgaged
\* item, or with a non-numeric or non-positive principal or rate, adds no loan.
LoansWellFormed ==
    /\ \A i \in 1..Len(byajLoans) :
           /\ Len(byajLoans[i].mortgagedItems) >= 1
           /\ byajLoans[i].principalAmount > 0
           /\ byajLoans[i].interestRate > 0
    /\ \A f \in LoanForms :
           ( \/ Len(mortgagedItems) = 0
             \/ NonNumeric(f.principal) \/ Value(f.principal) <= 0
             \/ NonNumeric(f.rate) \/ Value(f.rate) <= 0 )
           => AddLoanFormSubmit(byajLoans, byajbookView, mortgagedItems, f, now).loans
                 = byajLoans

\* C19 witness: a loan with two mortgaged items is in the loan set, and the
\* add-loan form is open again with no mortgaged item in it.
LoanFormEmptiedReached ==
    /\ \E i \in 1..Len(byajLoans) : Len(byajLoans[i].mortgagedItems) = 2
    /\ byajbookView = "ADD_LOAN"
    /\ mortgagedItems = <<>>


\* C17: from Byajbook LIST, selecting a loan id that identifies no loan moves
\* the machine to DETAILS with nothing rendered (the component returns null
\* before it reads the loan); the Khatabook likewise renders nothing in
\* CUSTOMER_LEDGER and ADD_TRANSACTION when the selected party id identifies
\* no party.
MissingEntityRendersNothing ==
    /\ \A loanId \in SelectableLoanIds :
           (\A i \in 1..Len(byajLoans) : byajLoans[i].id # loanId) =>
               LET r == onSelectLoan(loanId)
               IN  /\ r.view = "DETAILS"
                   /\ r.selectedLoanId = loanId
                   /\ ByajbookRender(r.view, byajLoans, r.selectedLoanId) = null
    /\ (byajbookView = "DETAILS" /\ ~HasSelectedLoan)
           => ByajbookRender(byajbookView, byajLoans, selectedLoanId) = null
    /\ \A partyId \in SelectablePartyIds \cup {null} :
           (\A i \in 1..Len(parties) : parties[i].id # partyId) =>
               /\ onSelectParty(partyId).view = "CUSTOMER_LEDGER"
               /\ \A view \in {"CUSTOMER_LEDGER", "ADD_TRANSACTION"} :
                      KhatabookRender(view, parties, partyId) = null
    /\ (khatabookView \in {"CUSTOMER_LEDGER", "ADD_TRANSACTION"} /\ ~HasSelectedParty)
           => KhatabookRender(khatabookView, parties, selectedPartyId) = null

\* C17 witness: a loan exists, and the Byajbook is in DETAILS with a selected
\* id that identifies no loan.
MissingLoanSelectedReached ==
    /\ byajLoans # <<>>
    /\ byajbookView = "DETAILS" /\ ~HasSelectedLoan


\* C18: each book's navigation machine keeps its state for the whole session:
\* a step outside a book (one taken while another tab is shown, or a switch
\* of the tab) leaves the book's view and selected entity unchanged; and no
\* view is terminal: from every view other than LIST some step changes the
\* view.
BooksKeepState ==
    /\ [][(currentView # "khatabook" \/ currentView' # currentView)
             => /\ khatabookView' = khatabookView
                /\ selectedPartyId' = selectedPartyId]_vars
    /\ [][(currentView # "byajbook" \/ currentView' # currentView)
             => /\ byajbookView' = byajbookView
                /\ selectedLoanId' = selectedLoanId]_vars
    /\ [](khatabookView # "LIST" =>
             ENABLED (NextNavigation /\ khatabookView' # khatabookView))
    /\ [](byajbookView # "LIST" =>
             ENABLED (NextNavigation /\ byajbookView' # byajbookView))


\* C20: at most one document export is in flight at any time: while an
\* export started from a ledger or a loan-details view is pending, no second
\* export is started, whatever the user does in between.
AtMostOneExport == Len(pendingExports) <= 1


SignedOut == ~isAuthenticated /\ user = null /\ accessToken = 0 /\ storedToken = 0

\* C22: once signed out (flag false, profile null, bearer token null, nothing
\* persisted), the provider stays signed out until the next sign-in: no step
\* other than one that signs in changes any of the four, a profile fetch that
\* is still waiting included.
SignedOutUntilSignIn == [][(SignedOut /\ ~isAuthenticated') => SignedOut']_vars

\* C30: the authenticated flag is true exactly when the bearer token is
\* non-null, and a non-null user profile implies the authenticated flag.
AuthStateConsistent ==
    /\ isAuthenticated <=> accessToken # 0
    /\ user # null => isAuthenticated


\* C21: the application's Drive folder is created idempotently: over any
\* sequence and interleaving of uploads at most one folder-creation request
\* is issued.
FolderCreatedOnce == createRequests <= 1


\* A response the feed's consumer cannot use: an HTTP error, a body that is
\* no array, or no gold or no silver row with a numeric rate.
FailedResponse(response) ==
    \/ ~response.ok
    \/ ~response.isArray
    \/ \E word \in {"gold", "silver"} :
          LET found == Find(response.data, word)
          IN  found = <<>> \/ NonNumeric(found[1].Rate)

\* C23: a failed rate fetch ends with the error set and loading cleared and
\* leaves the rate table fetched before (or null) unchanged; a settling fetch
\* changes nothing of the billing, ledger and loan state and starts no new
\* fetch; after the first fetch a fetch begins only by the refresh button.
RateFetchFailureEffect ==
    /\ [](\A response \in RateResponses :
            FailedResponse(response) =>
                LET r == fetchRatesSettled(rates, response)
                IN  r.error # null /\ ~r.isLoading /\ r.rates = rates)
    /\ [](rateFetches = (IF isLoading THEN 1 ELSE 0))
    /\ [][rateFetches' < rateFetches =>
            /\ rateFetches' = rateFetches - 1
            /\ rateError' # null => (rates' = rates /\ ~isLoading')
            /\ UNCHANGED <<currentView, khataVars, items, gstRate, error,
                           discountType, discountValue, loanVars, sessionVars,
                           byajVars>>]_vars
    /\ [][rateFetches' > rateFetches =>
            BillingMounted /\ ~isLoading /\ isLoading' /\ rateFetches = 0]_vars

\* C23 witness: a fetch has failed after an earlier one had delivered a
\* table, which is still there, while items are in the session.
FailedAfterTableReached ==
    /\ rateError # null /\ ~isLoading /\ rateFetches = 0
    /\ RatesLoaded
    /\ items # <<>>


\* A party's balance as the claims define it: its DEBITs minus its CREDITs.
DebitsMinusCredits(party) ==
    LET mine == LedgerTransactions(party, khataTransactions)
    IN  SumOfType(mine, Len(mine), "DEBIT") - SumOfType(mine, Len(mine), "CREDIT")

OwingCustomers == {i \in 1..Len(parties) :
                      parties[i].type = "CUSTOMER" /\ DebitsMinusCredits(parties[i]) > 0}
OwedSuppliers  == {i \in 1..Len(parties) :
                      parties[i].type = "SUPPLIER" /\ DebitsMinusCredits(parties[i]) < 0}

\* The sum of sign * balance over the parties of the index set
RECURSIVE SumOver(_, _)
SumOver(indices, sign) ==
    IF indices = {} THEN 0
    ELSE LET i == CHOOSE x \in indices : TRUE
         IN  sign * DebitsMinusCredits(parties[i]) + SumOver(indices \ {i}, sign)

\* listed names each party of the index set once, with its balance, and
\* nothing else.
ListsExactly(listed, indices) ==
    /\ Len(listed) = Cardinality(indices)
    /\ {listed[k].party : k \in 1..Len(listed)} = {parties[i] : i \in indices}
    /\ \A k \in 1..Len(listed) : listed[k].balance = DebitsMinusCredits(listed[k].party)

\* C24: the reports aggregation lists as customer dues exactly the CUSTOMER
\* parties whose balance is > 0 and as supplier payables exactly the SUPPLIER
\* parties whose balance is < 0; totalReceivables is the sum of the listed
\* customers' balances and totalPayables the sum of the absolute values of
\* the listed suppliers' balances; both are >= 0; no other party contributes.
ReportsAggregation ==
    LET R == Reports(parties, khataTransactions)
    IN  /\ ListsExactly(R.customerDues, OwingCustomers)
        /\ ListsExactly(R.supplierPayables, OwedSuppliers)
        /\ R.totalReceivables =
               SumOver(OwingCustomers, 1)
        /\ R.totalPayables =
               SumOver(OwedSuppliers, -1)
        /\ R.totalReceivables >= 0 /\ R.totalPayables >= 0

\* C24 witness: a customer who owes and a supplier with a debit balance, who
\* is in neither list.
ReportsBucketsReached ==
    /\ OwingCustomers # {}
    /\ \E i \in 1..Len(parties) :
          parties[i].type = "SUPPLIER" /\ DebitsMinusCredits(parties[i]) > 0


\* C25: every export that is started completes in the end, and with it the
\* flag that disables its button is cleared, whether rendering or upload
\* succeeds or fails; a flag is set only while a call started by the mounted
\* view is waiting; a call that ends changes none of the party, transaction
\* and loan sets and starts no other call; and an export asked for a ledger
\* without transactions starts nothing.
ExportsComplete ==
    /\ Marked(pendingExports) ~> ~Marked(pendingExports)
    /\ isGeneratingPdf ~> ~isGeneratingPdf
    /\ isProcessingPdf ~> ~isProcessingPdf
    /\ [](\A origin \in {"ledger", "loan"} :
            (IF origin = "ledger" THEN isGeneratingPdf ELSE isProcessingPdf)
                <=> \E k \in 1..Len(pendingExports) :
                        pendingExports[k].origin = origin /\ pendingExports[k].mounted)
    /\ [][Len(pendingExports') < Len(pendingExports) =>
            /\ Len(pendingExports') = Len(pendingExports) - 1
            /\ UNCHANGED <<parties, khataTransactions, byajLoans>>]_vars
    /\ [][(Len(pendingExports') > Len(pendingExports)
            /\ pendingExports'[Len(pendingExports')].origin = "ledger")
           => Len(LedgerTransactions(selectedParty, khataTransactions)) > 0]_vars

\* C25 witness: an export that was started from a view since left is still
\* waiting while the view opened afterwards has started its own.
OrphanedExportWaitingReached ==
    /\ Len(pendingExports) = 2
    /\ ~pendingExports[1].mounted /\ pendingExports[1].marked
    /\ pendingExports[2].mounted


\* C26: for every SIMPLE loan and every evaluation instant, instants earlier
\* than the loan date included, interest >= 0, totalPayable >= principal and
\* daysPassed is a non-negative integer equal to floor(elapsedDays); when the
\* instant is not after the loan date, interest is 0, totalPayable equals the
\* principal and daysPassed is 0.
InterestNeverNegative ==
    loan.interestType = "SIMPLE" =>
        \A t \in EvalInstants :
            LET c            == LoanDetailsCalc(loan, t)
                elapsedTicks == IF t > loan.loanDate THEN t - loan.loanDate ELSE 0
            IN  /\ RatLe(Zero, c.interest)
                /\ RatLe(RatInt(loan.principalAmount), c.totalPayable)
                /\ c.daysPassed \in Nat
                /\ c.daysPassed = elapsedTicks \div TicksPerDay
                /\ t <= loan.loanDate =>
                       /\ c.interest = Zero
                       /\ c.totalPayable = RatInt(loan.principalAmount)
                       /\ c.daysPassed = 0

\* C26 witness: a SIMPLE loan rendered at an instant before its loan date.
RenderedBeforeLoanDateReached ==
    /\ loan.interestType = "SIMPLE"
    /\ now < loan.loanDate
    /\ loanCalc = <<LoanDetailsCalc(loan, now)>>


\* C27: every transaction in the transaction set has amount > 0 and an owner
\* that is a party of the party set; a save with a non-numeric or
\* non-positive amount adds no transaction; a successful save adds exactly one
\* transaction, whose direction is the one chosen when ADD_TRANSACTION was
\* entered and whose owner is the selected party.
TransactionsSound ==
    /\ [](\A k \in 1..Len(khataTransactions) :
            /\ khataTransactions[k].amount > 0
            /\ \E i \in 1..Len(parties) : parties[i].id = khataTransactions[k].partyId)
    /\ []((khatabookView = "ADD_TRANSACTION" /\ HasSelectedParty) =>
            \A amount \in AmountInputs :
                LET r == AddTransactionFormSubmit(khataTransactions, khatabookView,
                                                  selectedParty, transactionType, amount, now)
                    added == {k \in 1..Len(r.transactions) :
                                 \A j \in 1..Len(khataTransactions) :
                                     r.transactions[k].id # khataTransactions[j].id}
                IN  IF NonNumeric(amount) \/ Value(amount) <= 0
                    THEN r.transactions = khataTransactions
                    ELSE /\ Len(r.transactions) = Len(khataTransactions) + 1
                         /\ IsSubsequence(khataTransactions, r.transactions)
                         /\ Cardinality(added) = 1
                         /\ \A k \in added :
                                /\ r.transactions[k].type = transactionType
                                /\ r.transactions[k].partyId = selectedPartyId
                                /\ r.transactions[k].amount = Value(amount))
    /\ [][(khatabookView = "ADD_TRANSACTION" /\ khatabookView' = "ADD_TRANSACTION") =>
            UNCHANGED <<transactionType, selectedPartyId>>]_vars
    /\ [][khatabookView' = "ADD_TRANSACTION" => khatabookView \in {"CUSTOMER_LEDGER", "ADD_TRANSACTION"}]_vars

\* C27 witness: the add-transaction form is open for a party while a CREDIT
\* and a DEBIT are in the transaction set.
BothDirectionsSavedReached ==
    /\ khatabookView = "ADD_TRANSACTION" /\ HasSelectedParty
    /\ Len(khataTransactions) = 2
    /\ khataTransactions[1].type # khataTransactions[2].type


\* C28: all items of the billing session have pairwise distinct identifiers,
\* so that removeItem(id) for an id present in the session removes exactly
\* one item.
ItemIdsDistinct ==
    /\ \A a, b \in 1..Len(items) : a # b => items[a].id # items[b].id
    /\ \A k \in 1..Len(items) :
           Len(handleRemoveItem(Session, items[k].id).items) = Len(items) - 1


PartyIds == {parties[i].id : i \in 1..Len(parties)}

\* C29: whenever the Khatabook view is CUSTOMER_LEDGER or ADD_TRANSACTION the
\* selected party id is non-null and is the id of a party in the party set;
\* the selection is given a party id only by the select-party transition
\* (LIST to CUSTOMER_LEDGER), and while the Khatabook stays mounted every
\* other step -- back, save, add customer -- leaves it unchanged.
SelectionSound ==
    /\ [](khatabookView \in {"CUSTOMER_LEDGER", "ADD_TRANSACTION"} =>
            selectedPartyId # null /\ selectedPartyId \in PartyIds)
    /\ [][(selectedPartyId' # selectedPartyId /\ selectedPartyId' # null) =>
            /\ khatabookView = "LIST" /\ khatabookView' = "CUSTOMER_LEDGER"
            /\ selectedPartyId' \in PartyIds]_vars
    /\ [][(KhatabookMounted /\ KhatabookMounted'
            /\ ~(khatabookView = "LIST" /\ khatabookView' = "CUSTOMER_LEDGER"))
           => selectedPartyId' = selectedPartyId]_vars

\* C29 witness: the add-transaction form is open for the second party, after
\* a transaction was saved for it.
SecondPartySelectedReached ==
    /\ khatabookView = "ADD_TRANSACTION"
    /\ Len(parties) >= 2 /\ selectedPartyId = parties[2].id
    /\ \E k \in 1..Len(khataTransactions) : khataTransactions[k].partyId = selectedPartyId

====
